---- MODULE Spec2Model ----
(***************************************************************************)
(* Vision: employee monitoring engine.                                     *)
(*   monitoring/camera_monitor.py        CameraMonitor (focus classifier)  *)
(*   monitoring/pc_activity_monitor.py   PCActivityMonitor                 *)
(*   core/session_tracker.py             SessionTracker (orchestrator)     *)
(*   core/database.py                    the sqlite tables                 *)
(*   monitoring/shift_tracker.py         ShiftTracker                      *)
(*   monitoring/productivity_calculator.py  ProductivityCalculator         *)
(* Times are integers counted in ticks; TicksPerSecond ticks make a second.*)
(***************************************************************************)
EXTENDS Integers, Sequences, FiniteSets, TLC

VARIABLES
    today,      \* date.today(), a day number
    db,         \* the sqlite tables the tracker writes
    st,         \* the SessionTracker object
    cam,        \* the CameraMonitor object
    pc,         \* the PCActivityMonitor object
    cam_obs,    \* history: what the camera loop did in its last iteration
    pc_obs,     \* history: what the activity loop did in its last iteration
    st_obs,     \* history: the calls made on the tracker
    writes,     \* the _db_lock and each thread's place in the tracker's methods
    shift,      \* the ShiftTracker object
    shift_obs,  \* history: what the shift loop computed in its last tick
    calc,       \* the last use of the ProductivityCalculator and its result
    agg,        \* the stored shift and login time a summary round reads, and
                \* history: what the round made of them
    loops       \* one monitor's threads: the caller inside stop(), each loop
                \* thread's place in _loop, the clock, and history

vars ==
    <<today, db, st, cam, pc, cam_obs, pc_obs, st_obs, writes, shift, shift_obs,
      calc, agg, loops>>

shift_vars == <<shift, shift_obs>>

\* ------------------------------------------------------------------ bounds
TicksPerSecond == 2
MaxSamples == 4
MaxStreak == 1
MaxFailureSamples == 1
MaxActivitySamples == 3
MaxStarts == 2
MaxDays == 2
MaxSessionSamples == 1
MaxShiftTime == 5
ShiftTicksPerMinute == 2
MaxScoreSeconds == 3

\* ------------------------------------------------------------- enumerations
None == "None"
FOCUSED == "FOCUSED"
DISTRACTED == "DISTRACTED"
AWAY == "AWAY"
FocusState == {FOCUSED, DISTRACTED, AWAY}

WORK == "WORK"
NON_WORK == "NON_WORK"
IDLE == "IDLE"
ActivityLabel == {WORK, NON_WORK, IDLE}

\* ---------------------------------------------------------- CameraMonitor
stabilization_seconds == 2 * TicksPerSecond
FpsDebugPeriod == 1 * TicksPerSecond
MaxFailedReads == 30

\* Time between the previous sample and the first time.time() of an iteration,
\* and time spent in detect_focus_state, in ticks.
Gaps == {0, FpsDebugPeriod}
Detects == {0, 1, stabilization_seconds}

CameraMonitorInit(callback) ==
    [ on_state_update |-> callback,
      on_frame |-> callback,
      _running |-> FALSE,
      _thread |-> "none",
      _cap |-> None,
      focused_seconds |-> 0,
      distracted_seconds |-> 0,
      away_seconds |-> 0,
      _current_state |-> AWAY,
      _pending_state |-> AWAY,
      _pending_duration |-> 0,
      failed_reads |-> 0 ]

\* CameraMonitor.start: opened is whether cv2.VideoCapture could open the camera.
CameraMonitor_start(m, opened) ==
    IF m._running THEN m
    ELSE IF ~opened THEN [m EXCEPT !._cap = None]
    ELSE [m EXCEPT !._cap = "open", !._running = TRUE,
                   !._thread = "alive", !.failed_reads = 0]

CameraMonitor_stop_resets(m) ==
    [m EXCEPT !._running = FALSE, !._cap = None, !.focused_seconds = 0,
              !.distracted_seconds = 0, !.away_seconds = 0]

\* CameraMonitor.stop: the join is bounded, the thread may outlive the call.
CameraMonitor_stop(m) ==
    [m EXCEPT !._running = FALSE, !._cap = None]

_update_stable_state(m, raw_state, delta) ==
    IF raw_state = m._current_state
    THEN [m EXCEPT !._pending_state = m._current_state, !._pending_duration = 0]
    ELSE IF raw_state = m._pending_state
    THEN LET d == m._pending_duration + delta
         IN  IF d >= stabilization_seconds
             THEN [m EXCEPT !._current_state = raw_state, !._pending_duration = 0]
             ELSE [m EXCEPT !._pending_duration = d]
    ELSE [m EXCEPT !._pending_state = raw_state, !._pending_duration = 0]

\* delta of one iteration: the FPS debug block moves last_time to now when a
\* second or more has passed, then delta = now - last_time after detection.
SampleDelta(gap, detect) ==
    IF gap >= FpsDebugPeriod THEN detect ELSE gap + detect

\* The two _update_stable_state calls of one iteration.
FirstUpdate(m, raw_state, delta) == _update_stable_state(m, raw_state, delta)

SecondUpdate(m, raw_state, delta) ==
    _update_stable_state(FirstUpdate(m, raw_state, delta), raw_state, delta)

CreditWrong(m, raw_state, delta) ==
    IF raw_state = FOCUSED
    THEN [m EXCEPT !.focused_seconds = @ + delta]
    ELSE IF raw_state = DISTRACTED
    THEN [m EXCEPT !.distracted_seconds = @ + delta]
    ELSE [m EXCEPT !.away_seconds = @ + delta]

\* seconds tracking uses the stable state only
Credit(m, raw_state, delta) ==
    IF m._current_state = FOCUSED
    THEN [m EXCEPT !.focused_seconds = @ + delta]
    ELSE IF m._current_state = DISTRACTED
    THEN [m EXCEPT !.distracted_seconds = @ + delta]
    ELSE [m EXCEPT !.away_seconds = @ + delta]

\* Whether the loop calls on_state_update in this iteration.
StateUpdateFires(m, raw_state, delta) ==
    /\ m.on_state_update # None
    /\ SecondUpdate(m, raw_state, delta)._current_state
         # FirstUpdate(m, raw_state, delta)._current_state

\* The monitor after one successful iteration of _loop.
LoopSample(m, raw_state, delta) ==
    [Credit(SecondUpdate(m, raw_state, delta), raw_state, delta)
        EXCEPT !.failed_reads = 0]

\* The monitor after one failed read: the loop breaks when the streak exceeds
\* the threshold.
LoopReadFailed(m) ==
    LET n == m.failed_reads + 1
    IN  IF n > MaxFailedReads
        THEN [m EXCEPT !.failed_reads = n, !._thread = "exited"]
        ELSE [m EXCEPT !.failed_reads = n]

LoopCondition(m) == m._running /\ m._cap # None

CameraCallbackUncaught(m, raised) ==
    IF raised THEN [m EXCEPT !._thread = "exited"] ELSE m

\* The monitor after the loop has called on_state_update or on_frame: the call
\* sits in try/except Exception, the loop goes on whether or not it raised.
CameraAfterCallback(m, raised) == m

\* ------------------------------------------------------------ the database
\* cursor.execute raises TypeError when its first argument is not a string.
Ellipsis == "Ellipsis"
execute_raises(sql) == sql = Ellipsis

DatabaseTables(summaries) ==
    [ daily_summaries |-> summaries,
      focus_logs |-> <<>>,
      pc_activity_logs |-> <<>> ]

\* ---------------------------------------------------------- SessionTracker
SessionTrackerInit ==
    [ user_id |-> None,
      _login_time |-> None,
      _camera_monitor |-> None,
      _pc_monitor |-> None,
      _summary_thread |-> None,
      _summary_running |-> FALSE,
      summary_threads |-> 0,
      _current_focus_state |-> AWAY,
      _current_pc_app |-> None,
      _current_pc_label |-> IDLE,
      _ui_focus_callback |-> None,
      _ui_pc_callback |-> None,
      _ui_frame_callback |-> None ]

score_map(state) ==
    IF state = FOCUSED THEN 100 ELSE IF state = DISTRACTED THEN 60 ELSE 0

\* SessionTracker._on_focus_state_change(state), called on the camera thread.
\* The result names the tracker, the tables and whether the call raised.
_on_focus_state_change(t, d, state) ==
    IF t.user_id = None
    THEN [st |-> t, db |-> d, raised |-> FALSE, ui |-> FALSE]
    ELSE LET t1 == [t EXCEPT !._current_focus_state = state]
         IN  IF execute_raises(Ellipsis)
             THEN [st |-> t1, db |-> d, raised |-> TRUE, ui |-> FALSE]
             ELSE [st |-> t1,
                   db |-> [d EXCEPT !.focus_logs = Append(@,
                             [user_id |-> t.user_id, timestamp |-> today,
                              status |-> state, score_value |-> score_map(state)])],
                   raised |-> FALSE,
                   ui |-> t._ui_focus_callback # None]

\* SessionTracker._on_camera_frame(frame, state): forwards the frame to the UI
\* if it subscribed; an exception of the UI callback is discarded.
_on_camera_frame(t) ==
    [st |-> t, raised |-> FALSE, ui |-> t._ui_frame_callback # None]

\* --------------------------------------------------- CameraMonitor actions
CamObsInit ==
    [ kind |-> "none", n |-> 0, raw |-> AWAY, delta |-> 0, elapsed |-> 0,
      before |-> CameraMonitorInit(None), updates |-> <<>>,
      run_state |-> None, run_elapsed |-> 0,
      changes |-> 0, callbacks |-> 0,
      uniform |-> TRUE, first_change_at |-> 0,
      handler |-> "none", ui |-> FALSE, frame_ui |-> FALSE,
      observer |-> None ]

HalfSecond == TicksPerSecond \div 2

\* CameraMonitor.start() called by the owner of a monitor that is not running.
CameraStart(opened) ==
    /\ cam.on_state_update = "observer"
    /\ cam._thread # "alive"
    /\ ~cam._running
    /\ cam' = CameraMonitor_start(cam, opened)
    /\ UNCHANGED <<today, db, st, pc, cam_obs, pc_obs, st_obs, writes, shift_vars, calc, agg, loops>>

\* CameraMonitor.stop() called by the owner of the monitor.
CameraStop ==
    /\ cam.on_state_update = "observer"
    /\ cam._running
    /\ cam' = CameraMonitor_stop(cam)
    /\ UNCHANGED <<today, db, st, pc, cam_obs, pc_obs, st_obs, writes, shift_vars, calc, agg, loops>>

\* The loop finds its condition false and returns.
CameraLoopExit ==
    /\ cam._thread = "alive"
    /\ ~LoopCondition(cam)
    /\ cam' = [cam EXCEPT !._thread = "exited"]
    /\ UNCHANGED <<today, db, st, pc, cam_obs, pc_obs, st_obs, writes, shift_vars, calc, agg, loops>>

\* One iteration whose read fails.
CameraReadFail(limit) ==
    /\ cam._thread = "alive"
    /\ LoopCondition(cam)
    /\ cam.failed_reads < limit
    /\ cam' = LoopReadFailed(cam)
    /\ cam_obs' = [cam_obs EXCEPT !.kind = "fail", !.before = cam,
                                  !.updates = <<>>, !.uniform = FALSE,
                                  !.handler = "none", !.ui = FALSE,
                                  !.frame_ui = FALSE, !.observer = None]
    /\ UNCHANGED <<today, db, st, pc, pc_obs, st_obs, writes, shift_vars, calc, agg, loops>>

\* One iteration whose read succeeds: detection, debouncing, crediting and the
\* callbacks.
CameraSample(raw_state, gap, detect, limit) ==
    /\ cam._thread = "alive"
    /\ LoopCondition(cam)
    /\ cam_obs.n + pc_obs.n < limit
    /\ LET delta == SampleDelta(gap, detect)
           after == LoopSample(cam, raw_state, delta)
           fires == StateUpdateFires(cam, raw_state, delta)
           changed == after._current_state # cam._current_state
           tracked == fires /\ cam.on_state_update = "tracker"
           handled == _on_focus_state_change(st, db, after._current_state)
           framed == _on_camera_frame(IF tracked THEN handled.st ELSE st)
           n1 == cam_obs.n + 1
       IN  /\ cam' = CameraAfterCallback(
                        CameraAfterCallback(after, tracked /\ handled.raised),
                        cam.on_frame = "tracker" /\ framed.raised)
           /\ IF tracked
              THEN st' = framed.st /\ db' = handled.db
              ELSE UNCHANGED <<st, db>>
           /\ cam_obs' =
                [ kind |-> "sample", n |-> n1, raw |-> raw_state,
                  delta |-> delta, elapsed |-> gap + detect,
                  before |-> cam,
                  updates |-> IF fires THEN <<after._current_state>> ELSE <<>>,
                  run_state |-> raw_state,
                  run_elapsed |-> IF cam_obs.run_state = raw_state
                                  THEN cam_obs.run_elapsed + gap + detect
                                  ELSE gap + detect,
                  changes |-> cam_obs.changes + (IF changed THEN 1 ELSE 0),
                  callbacks |-> cam_obs.callbacks + (IF fires THEN 1 ELSE 0),
                  uniform |-> /\ cam_obs.uniform
                              /\ raw_state = FOCUSED
                              /\ delta = HalfSecond
                              /\ gap + detect = HalfSecond,
                  first_change_at |-> IF changed /\ cam_obs.changes = 0
                                      THEN n1 ELSE cam_obs.first_change_at,
                  handler |-> IF ~tracked THEN "none"
                              ELSE IF handled.raised THEN "raised" ELSE "returned",
                  ui |-> tracked /\ handled.ui,
                  frame_ui |-> cam.on_frame = "tracker" /\ framed.ui,
                  observer |-> IF cam.on_frame = "tracker"
                               THEN st._ui_frame_callback ELSE None ]
    /\ UNCHANGED <<today, pc, pc_obs, st_obs, writes, shift_vars, calc, agg, loops>>

\* ------------------------------------------------------- PCActivityMonitor
idle_threshold == 60 * TicksPerSecond
work_apps == {"code.exe", "pycharm.exe", "python.exe", "chrome.exe",
              "excel.exe", "word.exe"}

\* What the Windows calls of one sample can answer: no foreground window, a
\* process that cannot be looked up, or the executable name psutil reports.
ProcessNames == {"Code.exe", "chrome.exe", "EXCEL.EXE", "game.exe", ""}
Foregrounds == {"no_window", "no_process"} \cup ProcessNames

\* str.lower() on the names above.
lower(name) ==
    CASE name = "Code.exe" -> "code.exe"
      [] name = "EXCEL.EXE" -> "excel.exe"
      [] OTHER -> name

\* Elapsed times of one activity sample and answers of _get_idle_time, in ticks.
ActivityDeltas == {0, 1, idle_threshold}
IdleTimes == {0, idle_threshold - 1, idle_threshold, idle_threshold + TicksPerSecond}

PCActivityMonitorInit(callback) ==
    [ on_update |-> callback,
      _running |-> FALSE,
      _thread |-> "none",
      work_seconds |-> 0,
      non_work_seconds |-> 0,
      idle_seconds |-> 0 ]

PCActivityMonitor_start(m) ==
    IF m._running THEN m
    ELSE [m EXCEPT !._running = TRUE, !._thread = "alive"]

PCActivityMonitor_stop(m) == [m EXCEPT !._running = FALSE]

_get_active_app_name(fg) ==
    IF fg = "no_window" THEN None
    ELSE IF fg = "no_process" THEN None
    ELSE lower(fg)

classify_activity_absent_non_work(app_name) ==
    IF app_name = "" THEN IDLE
    ELSE IF app_name \in work_apps THEN WORK
    ELSE NON_WORK

classify_activity(app_name) ==
    IF app_name = None \/ app_name = "" THEN IDLE
    ELSE IF app_name \in work_apps THEN WORK
    ELSE NON_WORK

IdleCreditsWork(m, delta) == [m EXCEPT !.work_seconds = @ + delta]

\* The idle branch of _loop.
IdleBranch(m, delta) == [m EXCEPT !.idle_seconds = @ + delta]

\* The active branch of _loop.
ActiveBranch(m, label, delta) ==
    IF label = WORK
    THEN [m EXCEPT !.work_seconds = @ + delta]
    ELSE [m EXCEPT !.non_work_seconds = @ + delta]

\* One iteration of PCActivityMonitor._loop up to the callback: the monitor,
\* the (app_name, label) it hands to on_update and whether it asked for the
\* foreground application.
ActivityLoopSample(m, delta, idle_time, fg) ==
    IF idle_time >= idle_threshold
    THEN [ pc |-> IdleBranch(m, delta), app_name |-> None, label |-> IDLE,
           queried |-> FALSE ]
    ELSE LET app_name == _get_active_app_name(fg)
             label == classify_activity(app_name)
         IN  [ pc |-> ActiveBranch(m, label, delta), app_name |-> app_name,
               label |-> label, queried |-> TRUE ]

ActivityCallbackUncaught(m, raised) ==
    IF raised THEN [m EXCEPT !._thread = "exited"] ELSE m

\* The monitor after the loop has called on_update: the call sits in
\* try/except Exception, the loop goes on whether or not it raised.
ActivityAfterCallback(m, raised) == m

\* SessionTracker._on_pc_activity(app_name, label), called on the activity thread.
_on_pc_activity(t, d, app_name, label) ==
    IF t.user_id = None
    THEN [st |-> t, db |-> d, raised |-> FALSE, ui |-> FALSE]
    ELSE LET t1 == [t EXCEPT !._current_pc_app = app_name,
                             !._current_pc_label = label]
             app == IF app_name = None THEN "" ELSE app_name
             type_str == IF label = WORK THEN "work"
                         ELSE IF label = NON_WORK THEN "non_work" ELSE "idle"
         IN  IF execute_raises(Ellipsis)
             THEN [st |-> t1, db |-> d, raised |-> TRUE, ui |-> FALSE]
             ELSE [st |-> [t1 EXCEPT !._current_pc_app = app],
                   db |-> [d EXCEPT !.pc_activity_logs = Append(@,
                             [user_id |-> t.user_id, start_time |-> today,
                              end_time |-> today, app |-> app,
                              type |-> type_str])],
                   raised |-> FALSE,
                   ui |-> t._ui_pc_callback # None]

PcObsInit ==
    [ kind |-> "none", n |-> 0, delta |-> 0, idle_time |-> 0, fg |-> "no_window",
      queried |-> FALSE, before |-> PCActivityMonitorInit(None),
      emitted |-> <<>>, handler |-> "none", ui |-> FALSE, observer |-> None ]

ActivityStart ==
    /\ pc.on_update = "observer"
    /\ pc._thread # "alive"
    /\ ~pc._running
    /\ pc' = PCActivityMonitor_start(pc)
    /\ UNCHANGED <<today, db, st, cam, cam_obs, pc_obs, st_obs, writes, shift_vars, calc, agg, loops>>

ActivityStop ==
    /\ pc.on_update = "observer"
    /\ pc._running
    /\ pc' = PCActivityMonitor_stop(pc)
    /\ UNCHANGED <<today, db, st, cam, cam_obs, pc_obs, st_obs, writes, shift_vars, calc, agg, loops>>

ActivityLoopExit ==
    /\ pc._thread = "alive"
    /\ ~pc._running
    /\ pc' = [pc EXCEPT !._thread = "exited"]
    /\ UNCHANGED <<today, db, st, cam, cam_obs, pc_obs, st_obs, writes, shift_vars, calc, agg, loops>>

\* One iteration of the activity loop with its callback.
ActivitySample(delta, idle_time, fg, limit) ==
    /\ pc._thread = "alive"
    /\ pc._running
    /\ cam_obs.n + pc_obs.n < limit
    /\ LET r == ActivityLoopSample(pc, delta, idle_time, fg)
           tracked == pc.on_update = "tracker"
           handled == _on_pc_activity(st, db, r.app_name, r.label)
       IN  /\ pc' = ActivityAfterCallback(r.pc, tracked /\ handled.raised)
           /\ IF tracked
              THEN st' = handled.st /\ db' = handled.db
              ELSE UNCHANGED <<st, db>>
           /\ pc_obs' =
                [ kind |-> "sample", n |-> pc_obs.n + 1, delta |-> delta,
                  idle_time |-> idle_time, fg |-> fg, queried |-> r.queried,
                  before |-> pc,
                  emitted |-> IF pc.on_update # None
                              THEN <<[app_name |-> r.app_name, label |-> r.label]>>
                              ELSE <<>>,
                  handler |-> IF ~tracked THEN "none"
                              ELSE IF handled.raised THEN "raised" ELSE "returned",
                  ui |-> tracked /\ handled.ui,
                  observer |-> IF tracked THEN st._ui_pc_callback ELSE None ]
    /\ UNCHANGED <<today, cam, cam_obs, st_obs, writes, shift_vars, calc, agg, loops>>

\* ---------------------------------------------------- ProductivityCalculator
\* A score is the fraction <<numerator, denominator>>, denominator > 0.
Min(a, b) == IF a < b THEN a ELSE b
Max(a, b) == IF a > b THEN a ELSE b

calculate_score_unclamped(focused_seconds, non_work_seconds, idle_seconds, late_minutes) ==
    LET total == focused_seconds + non_work_seconds + idle_seconds
        late2 == Min(Max(late_minutes, 0), 40)
        num == 200 * focused_seconds - 80 * non_work_seconds
                 - 40 * idle_seconds - late2 * total
        den == 2 * total
    IN  IF total <= 0 THEN <<0, 1>> ELSE <<num, den>>

calculate_score_swapped_min_max(focused_seconds, non_work_seconds, idle_seconds, late_minutes) ==
    LET total == focused_seconds + non_work_seconds + idle_seconds
        late2 == Max(Min(late_minutes, 0), 40)
        num == 200 * focused_seconds - 80 * non_work_seconds
                 - 40 * idle_seconds - late2 * total
        den == 2 * total
    IN  IF total <= 0 THEN <<0, 1>>
        ELSE <<Max(0, Min(100 * den, num)), den>>

calculate_score_strict_guard(focused_seconds, non_work_seconds, idle_seconds, late_minutes) ==
    LET total == focused_seconds + non_work_seconds + idle_seconds
        late2 == Min(Max(late_minutes, 0), 40)
        num == 200 * focused_seconds - 80 * non_work_seconds
                 - 40 * idle_seconds - late2 * total
        den == 2 * total
    IN  IF total < 0 THEN <<0, 1>>
        ELSE <<Max(0, Min(100 * den, num)), den>>

calculate_score_penalties_added(focused_seconds, non_work_seconds, idle_seconds, late_minutes) ==
    LET total == focused_seconds + non_work_seconds + idle_seconds
        late2 == Min(Max(late_minutes, 0), 40)
        num == 200 * focused_seconds + 80 * non_work_seconds
                 + 40 * idle_seconds + late2 * total
        den == 2 * total
    IN  IF total <= 0 THEN <<0, 1>>
        ELSE <<Max(0, Min(100 * den, num)), den>>

calculate_score(focused_seconds, non_work_seconds, idle_seconds, late_minutes) ==
    LET total == focused_seconds + non_work_seconds + idle_seconds
        \* twice the late penalty: min(max(late_minutes, 0) * 0.5, 20.0)
        late2 == Min(Max(late_minutes, 0), 40)
        num == 200 * focused_seconds - 80 * non_work_seconds
                 - 40 * idle_seconds - late2 * total
        den == 2 * total
    IN  IF total <= 0 THEN <<0, 1>>
        ELSE <<Max(0, Min(100 * den, num)), den>>

categorize_exclusive(score) ==
    IF score[1] > 90 * score[2] THEN "PERFECT"
    ELSE IF score[1] > 80 * score[2] THEN "VERY_GOOD"
    ELSE IF score[1] > 70 * score[2] THEN "GOOD"
    ELSE IF score[1] > 60 * score[2] THEN "BAD"
    ELSE "WORSE"

categorize(score) ==
    IF score[1] >= 90 * score[2] THEN "PERFECT"
    ELSE IF score[1] >= 80 * score[2] THEN "VERY_GOOD"
    ELSE IF score[1] >= 70 * score[2] THEN "GOOD"
    ELSE IF score[1] >= 60 * score[2] THEN "BAD"
    ELSE "WORSE"

Minutes(seconds) == seconds \div (60 * TicksPerSecond)

\* ------------------------------------------------- ProductivityCalculator
\* A score is a fraction <<numerator, denominator>> with denominator > 0.
\* The counters a caller can pass (seconds) and the late minutes it can pass.
ScoreSeconds == -1..MaxScoreSeconds
LateMinutes == {-1, 0, 1, 39, 40, 41, 1000}

\* Scores a caller can hand to categorize: the band edges and a tenth below.
Scores == {<<n, 10>> : n \in {0, 599, 600, 699, 700, 799, 800, 899, 900, 1000}}

CalcInit ==
    [ op |-> "none", args |-> <<>>, score |-> <<0, 1>>, category |-> None ]

\* The calls a caller is about to make: calculate_score on four numbers, or
\* categorize on a score.
PendingCalls ==
    { [CalcInit EXCEPT !.op = "calculate_score", !.args = <<f, n, i, l>>] :
        f \in ScoreSeconds, n \in ScoreSeconds, i \in ScoreSeconds,
        l \in LateMinutes }
    \cup { [CalcInit EXCEPT !.op = "categorize", !.args = <<score>>] :
             score \in Scores }

\* The dashboard's refresh: the score of the counters, then its category.
CalculateScore ==
    /\ calc.op = "calculate_score"
    /\ calc.category = None
    /\ calc' = LET score == calculate_score(calc.args[1], calc.args[2],
                                            calc.args[3], calc.args[4])
               IN  [calc EXCEPT !.score = score, !.category = categorize(score)]
    /\ UNCHANGED <<today, db, st, cam, pc, cam_obs, pc_obs, st_obs, writes,
                   shift_vars, agg, loops>>

\* categorize applied to a score of the caller's.
Categorize ==
    /\ calc.op = "categorize"
    /\ calc.category = None
    /\ calc' = [calc EXCEPT !.score = calc.args[1],
                            !.category = categorize(calc.args[1])]
    /\ UNCHANGED <<today, db, st, cam, pc, cam_obs, pc_obs, st_obs, writes,
                   shift_vars, agg, loops>>

\* ------------------------------------------------- SessionTracker internals
\* The users of the users table; ids are free text.
UserIds == {"0001", "E002"}
int_raises(user_id) == user_id = "E002"

\* The attributes a SessionTracker instance has (set in __init__).
SessionTrackerAttributes ==
    { "db", "conn", "_db_lock", "user_id", "_camera_monitor", "_pc_monitor",
      "_productivity_calc", "_summary_thread", "_summary_running",
      "_current_focus_state", "_current_pc_app", "_current_pc_label",
      "_ui_focus_callback", "_ui_pc_callback", "_ui_frame_callback",
      "_shift_service", "_login_time" }

SummaryRow(user_id, day) ==
    [ user_id |-> user_id, date |-> day,
      productivity_percentage |-> <<0, 1>>, category |-> "UNDEFINED",
      late_minutes |-> 0, focused_minutes |-> 0,
      non_work_minutes |-> 0, idle_minutes |-> 0 ]

\* SELECT ... FROM daily_summaries WHERE user_id = ? AND date = ?
SelectSummary(d, user_id, day) ==
    { i \in DOMAIN d.daily_summaries :
        /\ d.daily_summaries[i].user_id = user_id
        /\ d.daily_summaries[i].date = day }

ensure_row_replaces(t, d, day) ==
    LET hit == SelectSummary(d, t.user_id, day)
    IN  IF hit = {}
        THEN [d EXCEPT !.daily_summaries = Append(@, SummaryRow(t.user_id, day))]
        ELSE [d EXCEPT !.daily_summaries =
                [i \in DOMAIN @ |->
                    IF i \in hit THEN SummaryRow(t.user_id, day) ELSE @[i]]]

ensure_row_always_inserts(t, d, day) ==
    [d EXCEPT !.daily_summaries = Append(@, SummaryRow(t.user_id, day))]

_ensure_today_summary_row(t, d, day) ==
    IF SelectSummary(d, t.user_id, day) = {}
    THEN [d EXCEPT !.daily_summaries = Append(@, SummaryRow(t.user_id, day))]
    ELSE d

get_counters(t, cm, pm) ==
    [ focused_seconds |-> IF t._camera_monitor # None
                          THEN cm.focused_seconds ELSE 0,
      non_work_seconds |-> IF t._pc_monitor # None
                           THEN pm.non_work_seconds ELSE 0,
      idle_seconds |-> IF t._pc_monitor # None THEN pm.idle_seconds ELSE 0 ]

\* SessionTracker._update_daily_summary: it reads self.focused_seconds,
\* self.non_work_seconds, self.idle_seconds, self.productivity_calculator and
\* self.late_minutes; reading an attribute the instance lacks raises
\* AttributeError before any statement is executed.
_update_daily_summary(t, d, day) ==
    IF ~({"focused_seconds", "non_work_seconds", "idle_seconds",
          "productivity_calculator", "late_minutes"}
            \subseteq SessionTrackerAttributes)
    THEN [db |-> d, raised |-> TRUE]
    ELSE LET score == calculate_score(t.focused_seconds, t.non_work_seconds,
                                      t.idle_seconds, t.late_minutes)
             hit == SelectSummary(d, t.user_id, day)
         IN  [ db |-> [d EXCEPT !.daily_summaries =
                         [ i \in DOMAIN @ |->
                             IF i \in hit
                             THEN [ @[i] EXCEPT
                                      !.productivity_percentage = score,
                                      !.category = categorize(score),
                                      !.late_minutes = t.late_minutes,
                                      !.focused_minutes = Minutes(t.focused_seconds),
                                      !.non_work_minutes = Minutes(t.non_work_seconds),
                                      !.idle_minutes = Minutes(t.idle_seconds) ]
                             ELSE @[i] ]],
               raised |-> FALSE ]

\* --------------------------------------------------- SessionTracker actions
StObsInit ==
    [ starts |-> 0, last_op |-> "none",
      calls |-> [u \in UserIds, day \in 1..(MaxDays + 1) |-> 0],
      at_stop |-> [focused_seconds |-> 0, non_work_seconds |-> 0,
                   idle_seconds |-> 0],
      stop_user |-> None, stop_day |-> 0,
      round_raised |-> FALSE ]

\* The tracker's fields once start_session has set the user and the login time.
start_session_login(t, user_id, day) ==
    [t EXCEPT !.user_id = user_id, !._login_time = day]

start_session_without_summary_thread(t) ==
    [t EXCEPT !._camera_monitor = "cam", !._pc_monitor = "pc"]

\* The tracker's fields once start_session has built and started the monitors
\* and the summary thread; it does so whatever the instance did before.
start_session_monitors(t) ==
    [t EXCEPT !._camera_monitor = "cam",
              !._pc_monitor = "pc",
              !._summary_running = TRUE,
              !._summary_thread = "thread",
              !.summary_threads = @ + 1]

\* SessionTracker.start_session(user_id); opened is whether the camera opens.
\* The monitors a previous start_session created are replaced by new ones.
StartSession(user_id, opened) ==
    /\ st_obs.starts < MaxStarts
    /\ LET t1 == start_session_login(st, user_id, today)
       IN  /\ db' = _ensure_today_summary_row(t1, db, today)
           /\ IF int_raises(user_id)
              THEN /\ st' = t1
                   /\ UNCHANGED <<cam, pc, cam_obs, pc_obs>>
                   /\ st_obs' = [st_obs EXCEPT !.starts = @ + 1,
                                   !.last_op = "start_raised",
                                   !.calls[user_id, today] = @ + 1]
              ELSE /\ st' = start_session_monitors(t1)
                   /\ cam' = CameraMonitor_start(CameraMonitorInit("tracker"), opened)
                   /\ pc' = PCActivityMonitor_start(PCActivityMonitorInit("tracker"))
                   /\ cam_obs' = [CamObsInit EXCEPT !.n = cam_obs.n,
                                                    !.changes = cam_obs.changes,
                                                    !.callbacks = cam_obs.callbacks]
                   /\ pc_obs' = [PcObsInit EXCEPT !.n = pc_obs.n]
                   /\ st_obs' = [st_obs EXCEPT !.starts = @ + 1,
                                   !.last_op = "start",
                                   !.calls[user_id, today] = @ + 1]
    /\ UNCHANGED <<today, writes, shift_vars, calc, agg, loops>>

\* SessionTracker.stop_session(): the definition at the end of the class, which
\* replaces the earlier one. The joins are bounded; threads may outlive the call.
StopSession ==
    /\ st_obs.last_op # "stop"
    /\ LET t1 == [st EXCEPT !._summary_running = FALSE,
                            !._summary_thread = None,
                            !._camera_monitor = None,
                            !._pc_monitor = None]
           flush == _update_daily_summary(t1, db, today)
       IN  /\ st' = t1
           /\ cam' = IF st._camera_monitor # None THEN CameraMonitor_stop(cam) ELSE cam
           /\ pc' = IF st._pc_monitor # None THEN PCActivityMonitor_stop(pc) ELSE pc
           /\ db' = flush.db
           /\ st_obs' = [st_obs EXCEPT !.last_op = "stop",
                           !.at_stop = get_counters(st, cam, pc),
                           !.stop_user = st.user_id,
                           !.stop_day = today]
    /\ UNCHANGED <<today, cam_obs, pc_obs, writes, shift_vars, calc, agg, loops>>

SummaryRoundUncaught(t, raised) ==
    IF raised THEN [t EXCEPT !.summary_threads = @ - 1] ELSE t

\* The tracker after one round of _summary_loop: the update sits in
\* try/except Exception, the thread sleeps and goes on whether or not it raised.
SummaryAfterRound(t, raised) == t

\* One round of _summary_loop: the update, whose exception is swallowed.
SummaryRound ==
    /\ st.summary_threads > 0
    /\ st._summary_running
    /\ LET round == _update_daily_summary(st, db, today)
       IN  /\ db' = round.db
           /\ st' = SummaryAfterRound(st, round.raised)
           /\ st_obs' = [st_obs EXCEPT !.last_op = "round",
                           !.round_raised = round.raised]
    /\ UNCHANGED <<today, cam, pc, cam_obs, pc_obs, writes, shift_vars, calc, agg, loops>>

\* The observers a UI can subscribe: one that returns and one that raises.
UiObservers == {"returns", "raises"}

\* SessionTracker.register_ui_callbacks: stores the three callbacks and calls
\* the focus and activity ones at once, discarding their exceptions.
RegisterUiCallbacks(observer) ==
    /\ st' = [st EXCEPT !._ui_focus_callback = observer,
                        !._ui_pc_callback = observer,
                        !._ui_frame_callback = observer]
    /\ UNCHANGED <<today, db, cam, pc, cam_obs, pc_obs, st_obs, writes, shift_vars, calc, agg, loops>>

\* A summary thread finds _summary_running false and returns.
SummaryExit ==
    /\ st.summary_threads > 0
    /\ ~st._summary_running
    /\ st' = [st EXCEPT !.summary_threads = @ - 1]
    /\ UNCHANGED <<today, db, cam, pc, cam_obs, pc_obs, st_obs, writes, shift_vars, calc, agg, loops>>

\* Midnight passes.
DayChange ==
    /\ today < MaxDays
    /\ today' = today + 1
    /\ UNCHANGED <<db, st, cam, pc, cam_obs, pc_obs, st_obs, writes, shift_vars, calc, agg, loops>>

\* ------------------------------------------- the tracker's methods by statement
\* The threads that run the tracker's methods: the caller of start_session and
\* stop_session, the camera thread, the activity thread and the summary thread.
Threads == {"caller", "focus", "activity", "summary"}

ensure_row_statements_unlocked == <<"select", "insert_summary", "commit">>

\* _ensure_today_summary_row: with self._db_lock: SELECT, INSERT if no row, commit.
ensure_row_statements ==
    <<"acquire", "select", "insert_summary", "commit", "release">>

\* _update_daily_summary: the attribute reads, then with self._db_lock: UPDATE,
\* commit.
update_statements ==
    <<"read_attributes", "acquire", "update", "commit", "release">>

\* The statements of a method in program order.
Statements(method) ==
    CASE method = "start_session" ->
           <<"login">> \o ensure_row_statements \o <<"int_user_id", "monitors">>
      [] method = "stop_session" -> <<"stop_monitors">> \o update_statements
      [] method = "_update_daily_summary" -> update_statements
      [] method = "_on_focus_state_change" ->
           <<"acquire", "execute_ellipsis", "commit", "release",
             "insert_focus", "commit">>
      [] method = "_on_pc_activity" ->
           <<"acquire", "execute_ellipsis", "commit", "release",
             "insert_activity", "commit">>

\* The statements that read or write the store through the connection.
StoreStatements ==
    {"select", "insert_summary", "update", "insert_focus", "insert_activity",
     "commit"}

IdleFrame == [method |-> None, pc |-> 0, arg |-> None, row |-> {}]

WritesInit == [_db_lock |-> None, frames |-> [t \in Threads |-> IdleFrame]]

\* The statement a thread is at: None outside the tracker's methods.
CurrentStatement(t) ==
    LET f == writes.frames[t]
    IN  IF f.method = None THEN None
        ELSE IF f.pc > Len(Statements(f.method)) THEN "return"
        ELSE Statements(f.method)[f.pc]

\* A thread enters a method of the tracker.
Call(t, method, arg) ==
    /\ writes.frames[t].method = None
    /\ writes' = [writes EXCEPT !.frames[t] =
                    [method |-> method, pc |-> 1, arg |-> arg, row |-> {}]]

\* The caller calls start_session(user_id).
CallStartSession(user_id) ==
    /\ st_obs.starts < MaxStarts
    /\ Call("caller", "start_session", user_id)
    /\ UNCHANGED <<today, db, st, cam, pc, cam_obs, pc_obs, st_obs, shift_vars, calc, agg, loops>>

\* The caller calls stop_session().
CallStopSession ==
    /\ st_obs.last_op # "stop"
    /\ Call("caller", "stop_session", None)
    /\ UNCHANGED <<today, db, st, cam, pc, cam_obs, pc_obs, st_obs, shift_vars, calc, agg, loops>>

\* The camera thread reports a stable state to _on_focus_state_change, which
\* returns at once without a user and else records the state.
CallFocusStateChange(state) ==
    /\ cam._thread = "alive" /\ LoopCondition(cam)
    /\ st.user_id # None
    /\ Call("focus", "_on_focus_state_change", state)
    /\ st' = [st EXCEPT !._current_focus_state = state]
    /\ UNCHANGED <<today, db, cam, pc, cam_obs, pc_obs, st_obs, shift_vars, calc, agg, loops>>

\* The activity thread reports a sample to _on_pc_activity.
CallPcActivity(app_name, label) ==
    /\ pc._thread = "alive" /\ pc._running
    /\ st.user_id # None
    /\ Call("activity", "_on_pc_activity", [app_name |-> app_name, label |-> label])
    /\ st' = [st EXCEPT !._current_pc_app = app_name, !._current_pc_label = label]
    /\ UNCHANGED <<today, db, cam, pc, cam_obs, pc_obs, st_obs, shift_vars, calc, agg, loops>>

\* The summary thread starts a round.
CallUpdateDailySummary ==
    /\ st.summary_threads > 0 /\ st._summary_running
    /\ Call("summary", "_update_daily_summary", None)
    /\ UNCHANGED <<today, db, st, cam, pc, cam_obs, pc_obs, st_obs, shift_vars, calc, agg, loops>>

\* A thread executes the statement it is at. An exception leaves the method,
\* and the with block it is raised in releases the lock on the way out.
Step(t) ==
    LET f == writes.frames[t]
        stmt == CurrentStatement(t)
        raises == \/ stmt = "execute_ellipsis" /\ execute_raises(Ellipsis)
                  \/ stmt = "read_attributes"
                       /\ _update_daily_summary(st, db, today).raised
                  \/ stmt = "int_user_id" /\ int_raises(f.arg)
        starting == f.method = "start_session"
        f1 == IF raises \/ stmt = "return" THEN IdleFrame
              ELSE [f EXCEPT !.pc = @ + 1,
                             !.row = IF stmt = "select"
                                     THEN SelectSummary(db, st.user_id, today)
                                     ELSE @]
    IN  /\ f.method # None
        /\ stmt = "acquire" => writes._db_lock = None
        /\ writes' =
             [ _db_lock |-> IF stmt = "acquire" THEN t
                            ELSE IF stmt = "release" THEN None
                            ELSE IF raises /\ writes._db_lock = t THEN None
                            ELSE writes._db_lock,
               frames |-> [writes.frames EXCEPT ![t] = f1] ]
        /\ db' = CASE stmt = "insert_summary" /\ f.row = {} ->
                        [db EXCEPT !.daily_summaries =
                            Append(@, SummaryRow(st.user_id, today))]
                   [] stmt = "insert_focus" ->
                        _on_focus_state_change(st, db, f.arg).db
                   [] stmt = "insert_activity" ->
                        _on_pc_activity(st, db, f.arg.app_name, f.arg.label).db
                   [] stmt = "update" -> _update_daily_summary(st, db, today).db
                   [] OTHER -> db
        /\ st' = CASE stmt = "login" -> start_session_login(st, f.arg, today)
                   [] stmt = "monitors" -> start_session_monitors(st)
                   [] stmt = "stop_monitors" ->
                        [st EXCEPT !._summary_running = FALSE,
                                   !._summary_thread = None,
                                   !._camera_monitor = None,
                                   !._pc_monitor = None]
                   [] OTHER -> st
        /\ cam' = CASE stmt = "monitors" ->
                         CameraMonitor_start(CameraMonitorInit("tracker"), TRUE)
                    [] stmt = "stop_monitors" /\ st._camera_monitor # None ->
                         CameraMonitor_stop(cam)
                    [] OTHER -> cam
        /\ pc' = CASE stmt = "monitors" ->
                        PCActivityMonitor_start(PCActivityMonitorInit("tracker"))
                   [] stmt = "stop_monitors" /\ st._pc_monitor # None ->
                        PCActivityMonitor_stop(pc)
                   [] OTHER -> pc
        /\ st_obs' = CASE stmt = "monitors" ->
                            [st_obs EXCEPT !.starts = @ + 1, !.last_op = "start"]
                       [] stmt = "int_user_id" /\ raises ->
                            [st_obs EXCEPT !.starts = @ + 1,
                                           !.last_op = "start_raised"]
                       [] stmt = "stop_monitors" ->
                            [st_obs EXCEPT !.last_op = "stop"]
                       [] OTHER -> st_obs
        /\ UNCHANGED <<today, cam_obs, pc_obs, shift_vars, calc, agg, loops>>

\* ------------------------------------------------------------- ShiftTracker
\* Datetimes are integers counted in shift ticks; ShiftTicksPerMinute ticks make
\* a minute.
Times == 0..MaxShiftTime

NO_SHIFT == "NO_SHIFT"
BEFORE_SHIFT == "BEFORE_SHIFT"
IN_SHIFT == "IN_SHIFT"
AFTER_SHIFT == "AFTER_SHIFT"
ShiftStatus == {NO_SHIFT, BEFORE_SHIFT, IN_SHIFT, AFTER_SHIFT}

\* An Optional value is the empty sequence (None) or a sequence of one value.
Nothing == <<>>
Some(value) == <<value>>

\* What get_today_shift can return: no shift, or a shift with any two stored
\* datetimes (nothing orders them when a shift is saved).
ShiftWindows ==
    {Nothing} \cup {Some(w) : w \in [start_time : Times, end_time : Times]}

WholeMinutesRoundedUp(ticks) ==
    (ticks + ShiftTicksPerMinute - 1) \div ShiftTicksPerMinute

\* int(timedelta.total_seconds() // 60)
WholeMinutes(ticks) == ticks \div ShiftTicksPerMinute

ShiftTrackerInit ==
    [ on_update |-> "observer",
      _running |-> FALSE, _thread |-> "none",
      _current_shift |-> Nothing, _check_in_time |-> Nothing ]

start_without_check_in(m, window, now) ==
    IF m._running THEN m
    ELSE [m EXCEPT !._current_shift = window,
                   !._running = TRUE, !._thread = "alive"]

ShiftTracker_start(m, window, now) ==
    IF m._running THEN m
    ELSE [m EXCEPT !._current_shift = window, !._check_in_time = Some(now),
                   !._running = TRUE, !._thread = "alive"]

ShiftTracker_stop(m) == [m EXCEPT !._running = FALSE]

status_exclusive_bounds(start, end, now) ==
    IF now < start THEN BEFORE_SHIFT
    ELSE IF start < now /\ now < end THEN IN_SHIFT
    ELSE AFTER_SHIFT

\* The branch _compute_state takes for a configured window.
status_of(start, end, now) ==
    IF now < start THEN BEFORE_SHIFT
    ELSE IF start <= now /\ now <= end THEN IN_SHIFT
    ELSE AFTER_SHIFT

_compute_state(m, now) ==
    IF m._current_shift = Nothing
    THEN [ status |-> NO_SHIFT, start_time |-> Nothing, end_time |-> Nothing,
           worked_minutes |-> 0, remaining_minutes |-> 0, late_minutes |-> 0 ]
    ELSE LET start == m._current_shift[1].start_time
             end == m._current_shift[1].end_time
             late_minutes ==
                 IF m._check_in_time # Nothing /\ m._check_in_time[1] > start
                 THEN WholeMinutes(m._check_in_time[1] - start) ELSE 0
             status == status_of(start, end, now)
         IN  [ status |-> status, start_time |-> Some(start),
               end_time |-> Some(end),
               worked_minutes |->
                   IF status = BEFORE_SHIFT THEN 0
                   ELSE IF status = IN_SHIFT THEN WholeMinutes(now - start)
                   ELSE WholeMinutes(end - start),
               remaining_minutes |->
                   IF status = BEFORE_SHIFT THEN Max(0, WholeMinutes(start - now))
                   ELSE IF status = IN_SHIFT THEN Max(0, WholeMinutes(end - now))
                   ELSE 0,
               late_minutes |-> late_minutes ]

\* check_in is the time at which start() was last called.
ShiftObsInit ==
    [ kind |-> "none", now |-> 0, check_in |-> 0, emitted |-> <<>> ]

\* ShiftTracker.start() at the time now; window is what get_today_shift returns.
ShiftStart(window, now) ==
    /\ shift._thread # "alive"
    /\ ~shift._running
    /\ now >= shift_obs.now
    /\ shift' = ShiftTracker_start(shift, window, now)
    /\ shift_obs' = [ShiftObsInit EXCEPT !.now = now, !.check_in = now]
    /\ UNCHANGED <<today, db, st, cam, pc, cam_obs, pc_obs, st_obs, writes, calc, agg, loops>>

ShiftStop ==
    /\ shift._running
    /\ shift' = ShiftTracker_stop(shift)
    /\ UNCHANGED <<today, db, st, cam, pc, cam_obs, pc_obs, st_obs, writes,
                   shift_obs, calc, agg, loops>>

ShiftLoopExit ==
    /\ shift._thread = "alive"
    /\ ~shift._running
    /\ shift' = [shift EXCEPT !._thread = "exited"]
    /\ UNCHANGED <<today, db, st, cam, pc, cam_obs, pc_obs, st_obs, writes,
                   shift_obs, calc, agg, loops>>

\* One iteration of ShiftTracker._loop at the time now: the state is computed
\* and handed to on_update, whose exception is discarded.
ShiftTick(now) ==
    /\ shift._thread = "alive"
    /\ shift._running
    /\ now >= shift_obs.now
    /\ shift_obs' = [ kind |-> "tick", now |-> now,
                      check_in |-> shift_obs.check_in,
                      emitted |-> IF shift.on_update # None
                                  THEN <<_compute_state(shift, now)>> ELSE <<>> ]
    /\ UNCHANGED <<today, db, st, cam, pc, cam_obs, pc_obs, st_obs, writes, shift,
                   calc, agg, loops>>

\* ------------------------------------ the summary round that reads the shift
\* _update_daily_summary as src/Vision_buisness-main/core/session_tracker.py
\* has it: late minutes come from the login time and the stored shift start.
\* A stored shift_start text: a full ISO timestamp of a time, a time of day
\* that composed with today's date is a time, some other text, or "".
ShiftStartTexts ==
    {<<"timestamp", at>> : at \in Times}
    \cup {<<"time_of_day", at>> : at \in Times}
    \cup {<<"other">>, <<>>}

\* What get_today_shift returns: None or a Shift.
StoredShifts ==
    {Nothing} \cup {Some([shift_start |-> text]) : text \in ShiftStartTexts}

\* datetime.datetime.fromisoformat(text); Nothing stands for ValueError.
fromisoformat(text) ==
    IF text # <<>> /\ text[1] = "timestamp" THEN Some(text[2]) ELSE Nothing

\* f"{today}T{text}"
with_today(text) ==
    IF text # <<>> /\ text[1] = "time_of_day"
    THEN <<"timestamp", text[2]>> ELSE <<"other">>

\* try: fromisoformat(shift_start); except ValueError: fromisoformat of the
\* text composed with today's date, whose ValueError nothing catches.
parse_shift_start(text) ==
    LET full == fromisoformat(text)
        composed == fromisoformat(with_today(text))
    IN  IF full # Nothing
        THEN [ start |-> full, attempts |-> <<"fromisoformat">>,
               raised |-> FALSE ]
        ELSE [ start |-> composed,
               attempts |-> <<"fromisoformat", "with_today">>,
               raised |-> composed = Nothing ]

\* The late minutes of a login at login_time (an Optional) against the shift.
late_minutes_of(login_time, stored) ==
    IF login_time = Nothing \/ stored = Nothing
    THEN [ late_minutes |-> 0, attempts |-> <<>>, raised |-> FALSE ]
    ELSE IF stored[1].shift_start = <<>>
    THEN [ late_minutes |-> 0, attempts |-> <<>>, raised |-> FALSE ]
    ELSE LET parsed == parse_shift_start(stored[1].shift_start)
         IN  [ late_minutes |->
                   IF ~parsed.raised /\ login_time[1] > parsed.start[1]
                   THEN WholeMinutes(login_time[1] - parsed.start[1]) ELSE 0,
               attempts |-> parsed.attempts,
               raised |-> parsed.raised ]

\* ProductivityCategory(...).value
category_value(name) ==
    CASE name = "PERFECT" -> "Perfect"
      [] name = "VERY_GOOD" -> "Very Good"
      [] name = "GOOD" -> "Good"
      [] name = "BAD" -> "Bad"
      [] name = "WORSE" -> "Worse"

_update_daily_summary_with_shift(t, d, day, cm, pm, login_time, stored) ==
    LET none == [ db |-> d, raised |-> FALSE, late_minutes |-> 0,
                  attempts |-> <<>> ]
        c == get_counters(t, cm, pm)
        late == late_minutes_of(login_time, stored)
        score == calculate_score(c.focused_seconds, c.non_work_seconds,
                                 c.idle_seconds, late.late_minutes)
        hit == SelectSummary(d, t.user_id, day)
    IN  IF t.user_id = None THEN none
        ELSE IF late.raised
        THEN [none EXCEPT !.raised = TRUE, !.attempts = late.attempts]
        ELSE [ db |-> [d EXCEPT !.daily_summaries =
                         [ i \in DOMAIN @ |->
                             IF i \in hit
                             THEN [ @[i] EXCEPT
                                      !.productivity_percentage = score,
                                      !.category =
                                          category_value(categorize(score)),
                                      !.late_minutes = late.late_minutes,
                                      !.focused_minutes = Minutes(c.focused_seconds),
                                      !.non_work_minutes = Minutes(c.non_work_seconds),
                                      !.idle_minutes = Minutes(c.idle_seconds) ]
                             ELSE @[i] ]],
               raised |-> FALSE, late_minutes |-> late.late_minutes,
               attempts |-> late.attempts ]

\* stored is the row of the shifts table, login the clock time of the login
\* (_login_time, which start_session sets together with user_id).
AggInit ==
    [ stored |-> Nothing, login |-> 0, kind |-> "none",
      raised |-> FALSE, late_minutes |-> 0, attempts |-> <<>> ]

\* One round of that _summary_loop: the update, whose exception is swallowed.
SummaryRoundWithShift ==
    /\ st.summary_threads > 0
    /\ st._summary_running
    /\ LET round == _update_daily_summary_with_shift(
                        st, db, today, cam, pc,
                        IF st.user_id = None THEN Nothing
                        ELSE Some(agg.login),
                        agg.stored)
       IN  /\ db' = round.db
           /\ agg' = [agg EXCEPT !.kind = "round", !.raised = round.raised,
                                 !.late_minutes = round.late_minutes,
                                 !.attempts = round.attempts]
           /\ st_obs' = [st_obs EXCEPT !.last_op = "round",
                           !.round_raised = round.raised]
    /\ UNCHANGED <<today, st, cam, pc, cam_obs, pc_obs, writes, shift_vars, calc, loops>>

\* ------------------------------------------ one monitor's threads by statement
\* start() and stop() run on the caller's thread, _loop on the threads start()
\* creates; the interpreter may switch threads between any two statements.
\* The monitor's fields are those of cam, pc or shift, after loops.kind; their
\* _thread field is not read here: loops.current is the index in loops.threads
\* of the Thread object self._thread refers to, 0 for None.
MaxLoopThreads == 2
MaxLoopClock == 2

LoopsInit(kind) ==
    [ kind |-> kind,
      current |-> 0,
      threads |-> <<>>,
      caller |-> "idle",
      in_stop_session |-> FALSE,
      session_stopped |-> FALSE,
      clock |-> 0,
      stopped |-> {},
      returned |-> "none",
      timed_out |-> FALSE,
      bad_read |-> "none",
      last |-> [thread |-> 0, ui |-> FALSE, appended |-> FALSE,
                after_stop |-> FALSE] ]

\* threading.Thread.is_alive() of the thread with index i.
is_alive(l, i) == i # 0 /\ l.threads[i].at \notin {"exited", "crashed"}

LiveThreads(l) == {i \in 1..Len(l.threads) : is_alive(l, i)}

\* self._running of the monitor the threads belong to.
Flag ==
    CASE loops.kind = "camera" -> cam._running
      [] loops.kind = "activity" -> pc._running
      [] OTHER -> shift._running

\* The monitor of loops.kind becomes c, p or s; the other two are untouched.
SetMonitor(c, p, s) ==
    /\ cam' = IF loops.kind = "camera" THEN c ELSE cam
    /\ pc' = IF loops.kind = "activity" THEN p ELSE pc
    /\ shift' = IF loops.kind = "shift" THEN s ELSE shift

\* threading.Thread(target=self._loop).start(): the new thread stands before
\* its first test of the loop condition, last_time taken.
ThreadStarted(l) ==
    [l EXCEPT !.threads = Append(@, [at |-> "test", last_time |-> l.clock,
                                     failed_reads |-> 0]),
              !.current = Len(l.threads) + 1,
              !.returned = "start"]

\* start() on a monitor whose flag is down. It never looks at self._thread, so
\* a loop thread that outlived stop() is no obstacle.
\* opened is whether the camera opens, window what get_today_shift answers.
LoopsStart(opened, window) ==
    /\ loops.caller = "idle"
    /\ ~loops.in_stop_session
    /\ cam.on_state_update = "observer"
    /\ ~Flag
    /\ Len(loops.threads) < MaxLoopThreads
    /\ SetMonitor(CameraMonitor_start(cam, opened),
                  PCActivityMonitor_start(pc),
                  ShiftTracker_start(shift, window, loops.clock))
    /\ loops' = IF loops.kind = "camera" /\ ~opened
                THEN [loops EXCEPT !.returned = "start"]
                ELSE ThreadStarted(loops)
    /\ UNCHANGED <<today, db, st, cam_obs, pc_obs, st_obs, writes, shift_obs,
                   calc, agg>>

\* stop(), first statement: self._running = False.
LoopsStopFlag ==
    /\ loops.caller = "idle"
    /\ cam.on_state_update = "observer"
    /\ loops.threads # <<>>
    /\ SetMonitor([cam EXCEPT !._running = FALSE],
                  [pc EXCEPT !._running = FALSE],
                  [shift EXCEPT !._running = FALSE])
    /\ loops' = [loops EXCEPT !.caller = "join",
                              !.stopped = @ \cup LiveThreads(loops),
                              !.timed_out = FALSE]
    /\ UNCHANGED <<today, db, st, cam_obs, pc_obs, st_obs, writes, shift_obs,
                   calc, agg>>

\* The caller's place after the join; PCActivityMonitor.stop() returns there.
AfterJoin(l) ==
    CASE l.kind = "camera" -> [l EXCEPT !.caller = "release"]
      [] l.kind = "activity" -> [l EXCEPT !.caller = "idle", !.returned = "stop"]
      [] OTHER -> [l EXCEPT !.caller = "forget"]

\* if self._thread and self._thread.is_alive(): self._thread.join(timeout=1.0)
\* with the thread gone, or gone before the second is over.
LoopsJoinReturns ==
    /\ loops.caller = "join"
    /\ ~is_alive(loops, loops.current)
    /\ loops' = AfterJoin(loops)
    /\ UNCHANGED <<today, db, st, cam, pc, cam_obs, pc_obs, st_obs, writes,
                   shift_vars, calc, agg>>

\* The same statement when the second passes with the thread still inside an
\* iteration: in the read, the detection, a callback or the sleep.
LoopsJoinTimesOut ==
    /\ loops.caller = "join"
    /\ is_alive(loops, loops.current)
    /\ loops.threads[loops.current].at \in {"read", "body"}
    /\ loops' = [AfterJoin(loops) EXCEPT !.timed_out = TRUE]
    /\ UNCHANGED <<today, db, st, cam, pc, cam_obs, pc_obs, st_obs, writes,
                   shift_vars, calc, agg>>

\* CameraMonitor.stop(): if self._cap: self._cap.release()
LoopsRelease ==
    /\ loops.caller = "release"
    /\ cam' = [cam EXCEPT !._cap = IF @ = None THEN None ELSE "released"]
    /\ loops' = [loops EXCEPT !.caller = "clear"]
    /\ UNCHANGED <<today, db, st, pc, cam_obs, pc_obs, st_obs, writes,
                   shift_vars, calc, agg>>

\* CameraMonitor.stop(): self._cap = None, and stop() returns.
LoopsClear ==
    /\ loops.caller = "clear"
    /\ cam' = [cam EXCEPT !._cap = None]
    /\ loops' = [loops EXCEPT !.caller = IF loops.in_stop_session
                                         THEN "stop_session" ELSE "idle",
                              !.returned = "stop"]
    /\ UNCHANGED <<today, db, st, pc, cam_obs, pc_obs, st_obs, writes,
                   shift_vars, calc, agg>>

\* ShiftTracker.stop(): self._thread = None, and stop() returns.
LoopsForget ==
    /\ loops.caller = "forget"
    /\ shift' = [shift EXCEPT !._thread = "none"]
    /\ loops' = [loops EXCEPT !.caller = "idle", !.current = 0,
                              !.returned = "stop"]
    /\ UNCHANGED <<today, db, st, cam, pc, cam_obs, pc_obs, st_obs, writes,
                   shift_obs, calc, agg>>

\* A loop thread evaluates its while condition: self._running, and for the
\* camera also self._cap is not None.
LoopTest(i) ==
    /\ i \in 1..Len(loops.threads)
    /\ loops.threads[i].at = "test"
    /\ LET go == IF loops.kind = "camera" THEN LoopCondition(cam) ELSE Flag
       IN  loops' = [loops EXCEPT !.threads[i].at =
                        IF ~go THEN "exited"
                        ELSE IF loops.kind = "camera" THEN "read" ELSE "body"]
    /\ UNCHANGED <<today, db, st, cam, pc, cam_obs, pc_obs, st_obs, writes,
                   shift_vars, calc, agg>>

\* ok, frame = self._cap.read() on the camera thread. With self._cap None the
\* attribute lookup raises and the thread dies; a released capture answers
\* (False, None), which counts as a failed read; an open one delivers a frame.
LoopRead(i) ==
    /\ i \in 1..Len(loops.threads)
    /\ loops.kind = "camera"
    /\ loops.threads[i].at = "read"
    /\ loops' =
         CASE cam._cap = None ->
                [loops EXCEPT !.threads[i].at = "crashed", !.bad_read = "absent"]
           [] cam._cap = "released" ->
                LET n == loops.threads[i].failed_reads + 1
                IN  [loops EXCEPT !.threads[i].failed_reads = n,
                                  !.threads[i].at = IF n > MaxFailedReads
                                                    THEN "exited" ELSE "test",
                                  !.bad_read = "released"]
           [] OTHER ->
                [loops EXCEPT !.threads[i].at = "body",
                              !.threads[i].failed_reads = 0]
    /\ UNCHANGED <<today, db, st, cam, pc, cam_obs, pc_obs, st_obs, writes,
                   shift_vars, calc, agg>>

\* The thread i back at the loop condition after an iteration in which the
\* callbacks did what ui and appended say.
IterationDone(l, i, ui, appended) ==
    [l EXCEPT !.threads[i].at = "test",
              !.threads[i].last_time = l.clock,
              !.last = [thread |-> i, ui |-> ui, appended |-> appended,
                        after_stop |-> l.session_stopped]]

\* The rest of a camera iteration after a successful read: detection,
\* debouncing, crediting of now - last_time, the two callbacks, the sleep.
CameraLoopBody(i, raw_state) ==
    /\ i \in 1..Len(loops.threads)
    /\ loops.kind = "camera"
    /\ loops.threads[i].at = "body"
    /\ LET delta == SampleDelta(loops.clock - loops.threads[i].last_time, 0)
           after == LoopSample(cam, raw_state, delta)
           fires == StateUpdateFires(cam, raw_state, delta)
           tracked == fires /\ cam.on_state_update = "tracker"
           handled == _on_focus_state_change(st, db, after._current_state)
           framed == _on_camera_frame(IF tracked THEN handled.st ELSE st)
       IN  /\ cam' = CameraAfterCallback(
                        CameraAfterCallback(after, tracked /\ handled.raised),
                        cam.on_frame = "tracker" /\ framed.raised)
           /\ IF tracked
              THEN st' = framed.st /\ db' = handled.db
              ELSE UNCHANGED <<st, db>>
           /\ loops' = IterationDone(loops, i,
                          \/ tracked /\ handled.ui
                          \/ cam.on_frame = "tracker" /\ framed.ui,
                          tracked /\ handled.db # db)
    /\ UNCHANGED <<today, pc, cam_obs, pc_obs, st_obs, writes, shift_vars,
                   calc, agg>>

\* One iteration of PCActivityMonitor._loop: crediting of now - last_time, the
\* callback, the sleep.
ActivityLoopBody(i, idle_time, fg) ==
    /\ i \in 1..Len(loops.threads)
    /\ loops.kind = "activity"
    /\ loops.threads[i].at = "body"
    /\ LET delta == loops.clock - loops.threads[i].last_time
           r == ActivityLoopSample(pc, delta, idle_time, fg)
           tracked == pc.on_update = "tracker"
           handled == _on_pc_activity(st, db, r.app_name, r.label)
       IN  /\ pc' = ActivityAfterCallback(r.pc, tracked /\ handled.raised)
           /\ IF tracked
              THEN st' = handled.st /\ db' = handled.db
              ELSE UNCHANGED <<st, db>>
           /\ loops' = IterationDone(loops, i, tracked /\ handled.ui,
                                     tracked /\ handled.db # db)
    /\ UNCHANGED <<today, cam, cam_obs, pc_obs, st_obs, writes, shift_vars,
                   calc, agg>>

\* One iteration of ShiftTracker._loop: the state is computed and handed to
\* on_update, then the thread sleeps tick_seconds.
ShiftLoopBody(i) ==
    /\ i \in 1..Len(loops.threads)
    /\ loops.kind = "shift"
    /\ loops.threads[i].at = "body"
    /\ shift_obs' = [ kind |-> "tick", now |-> loops.clock,
                      check_in |-> shift_obs.check_in,
                      emitted |-> IF shift.on_update # None
                                  THEN <<_compute_state(shift, loops.clock)>>
                                  ELSE <<>> ]
    /\ loops' = IterationDone(loops, i, FALSE, FALSE)
    /\ UNCHANGED <<today, db, st, cam, pc, cam_obs, pc_obs, st_obs, writes,
                   shift, calc, agg>>

\* SessionTracker.start_session(user_id) for the tracker's first session, its
\* camera monitor followed thread by thread.
RaceStartSession(user_id, opened) ==
    /\ loops.caller = "idle"
    /\ loops.threads = <<>>
    /\ ~loops.session_stopped
    /\ st_obs.starts < MaxStarts
    /\ ~int_raises(user_id)
    /\ LET t1 == start_session_login(st, user_id, today)
       IN  /\ db' = _ensure_today_summary_row(t1, db, today)
           /\ st' = start_session_monitors(t1)
           /\ cam' = CameraMonitor_start(CameraMonitorInit("tracker"), opened)
           /\ pc' = PCActivityMonitor_start(PCActivityMonitorInit("tracker"))
           /\ loops' = IF opened THEN ThreadStarted(LoopsInit("camera"))
                       ELSE [LoopsInit("camera") EXCEPT !.returned = "start"]
           /\ st_obs' = [st_obs EXCEPT !.starts = @ + 1,
                           !.last_op = "start",
                           !.calls[user_id, today] = @ + 1]
    /\ UNCHANGED <<today, cam_obs, pc_obs, writes, shift_vars, calc, agg>>

\* stop_session() down to the first statement of self._camera_monitor.stop():
\* the summary thread is told to stop and joined for at most two seconds, then
\* the camera's flag goes down.
RaceStopSessionBegin ==
    /\ loops.caller = "idle"
    /\ cam.on_state_update = "tracker"
    /\ st._camera_monitor # None
    /\ st' = [st EXCEPT !._summary_running = FALSE, !._summary_thread = None]
    /\ cam' = [cam EXCEPT !._running = FALSE]
    /\ loops' = [loops EXCEPT !.caller = "join",
                              !.in_stop_session = TRUE,
                              !.stopped = @ \cup LiveThreads(loops),
                              !.timed_out = FALSE]
    /\ UNCHANGED <<today, db, pc, cam_obs, pc_obs, st_obs, writes, shift_vars,
                   calc, agg>>

\* The rest of stop_session() once the camera's stop() has returned: the
\* activity monitor is stopped, both references are dropped, the final flush
\* runs inside try/except, and stop_session returns.
RaceStopSessionEnd ==
    /\ loops.caller = "stop_session"
    /\ LET t1 == [st EXCEPT !._camera_monitor = None, !._pc_monitor = None]
           flush == _update_daily_summary(t1, db, today)
       IN  /\ st' = t1
           /\ pc' = PCActivityMonitor_stop(pc)
           /\ db' = flush.db
           /\ st_obs' = [st_obs EXCEPT !.last_op = "stop",
                           !.at_stop = get_counters(st, cam, pc),
                           !.stop_user = st.user_id,
                           !.stop_day = today]
    /\ loops' = [loops EXCEPT !.caller = "idle", !.in_stop_session = FALSE,
                              !.session_stopped = TRUE]
    /\ UNCHANGED <<today, cam, cam_obs, pc_obs, writes, shift_vars, calc, agg>>

\* Half a second passes.
LoopsTick ==
    /\ loops.clock < MaxLoopClock
    /\ loops' = [loops EXCEPT !.clock = @ + 1]
    /\ UNCHANGED <<today, db, st, cam, pc, cam_obs, pc_obs, st_obs, writes,
                   shift_vars, calc, agg>>

\* ----------------------------------------------------------- specifications
\* A summary row an earlier run of the program left in the table.
EarlierRow ==
    [ SummaryRow("0001", 1) EXCEPT !.productivity_percentage = <<75, 1>>,
                                   !.category = "GOOD", !.late_minutes = 3,
                                   !.focused_minutes = 42 ]

SessionDetects == {60 * TicksPerSecond}
SessionRawStates == {FOCUSED, AWAY}
SessionForegrounds == {"game.exe"}
SessionIdleTimes == {0, idle_threshold}

Init ==
    /\ today = 1
    /\ db = DatabaseTables(<<EarlierRow>>)
    /\ st = SessionTrackerInit
    /\ cam = CameraMonitorInit("tracker")
    /\ pc = PCActivityMonitorInit("tracker")
    /\ cam_obs = CamObsInit
    /\ pc_obs = PcObsInit
    /\ st_obs = StObsInit
    /\ writes = WritesInit
    /\ shift = ShiftTrackerInit
    /\ shift_obs = ShiftObsInit
    /\ calc = CalcInit
    /\ agg = AggInit
    /\ loops = LoopsInit("camera")

Next ==
    \/ \E user_id \in UserIds, opened \in BOOLEAN : StartSession(user_id, opened)
    \/ StopSession
    \/ SummaryRound
    \/ SummaryExit
    \/ DayChange
    \/ CameraLoopExit
    \/ CameraReadFail(MaxStreak)
    \/ \E raw_state \in SessionRawStates, detect \in SessionDetects :
          CameraSample(raw_state, 0, detect, MaxSessionSamples)
    \/ ActivityLoopExit
    \/ \E delta \in SessionDetects, idle_time \in SessionIdleTimes,
          fg \in SessionForegrounds :
          ActivitySample(delta, idle_time, fg, MaxSessionSamples)

Spec == Init /\ [][Next]_vars

\* One user's sessions on one day, with a UI that may subscribe.
SessionUsers == {"0001"}

NextSession ==
    \/ \E user_id \in SessionUsers, opened \in BOOLEAN : StartSession(user_id, opened)
    \/ StopSession
    \/ SummaryRound
    \/ SummaryExit
    \/ \E observer \in UiObservers : RegisterUiCallbacks(observer)
    \/ CameraLoopExit
    \/ CameraReadFail(MaxStreak)
    \/ \E raw_state \in SessionRawStates, detect \in SessionDetects :
          CameraSample(raw_state, 0, detect, MaxSessionSamples + 1)
    \/ ActivityLoopExit
    \/ \E delta \in SessionDetects, idle_time \in SessionIdleTimes,
          fg \in SessionForegrounds :
          ActivitySample(delta, idle_time, fg, MaxSessionSamples + 1)

SpecSession == Init /\ [][NextSession]_vars

\* The tracker's methods statement by statement, on their four threads.
NextWrites ==
    \/ \E user_id \in UserIds : CallStartSession(user_id)
    \/ CallStopSession
    \/ \E state \in FocusState : CallFocusStateChange(state)
    \/ \E label \in {WORK, IDLE} :
          CallPcActivity(IF label = WORK THEN "code.exe" ELSE None, label)
    \/ CallUpdateDailySummary
    \/ \E t \in Threads : Step(t)
    \/ CameraLoopExit
    \/ ActivityLoopExit
    \/ SummaryExit

SpecWrites == Init /\ [][NextWrites]_vars

\* A ShiftTracker built and driven by the dashboard.
NextShift ==
    \/ \E window \in ShiftWindows, now \in Times : ShiftStart(window, now)
    \/ ShiftStop
    \/ ShiftLoopExit
    \/ \E now \in Times : ShiftTick(now)

SpecShift == Init /\ [][NextShift]_vars

\* A ProductivityCalculator about to be called, beside the logins of one user
\* and the rounds of the summary thread.
InitScore ==
    /\ today = 1
    /\ db = DatabaseTables(<<EarlierRow>>)
    /\ st = SessionTrackerInit
    /\ cam = CameraMonitorInit("tracker")
    /\ pc = PCActivityMonitorInit("tracker")
    /\ cam_obs = CamObsInit
    /\ pc_obs = PcObsInit
    /\ st_obs = StObsInit
    /\ writes = WritesInit
    /\ shift = ShiftTrackerInit
    /\ shift_obs = ShiftObsInit
    /\ calc \in PendingCalls
    /\ agg = AggInit
    /\ loops = LoopsInit("camera")

NextScore ==
    \/ CalculateScore
    \/ Categorize
    \/ \E user_id \in SessionUsers, opened \in BOOLEAN : StartSession(user_id, opened)
    \/ SummaryRound
    \/ DayChange

SpecScore == InitScore /\ [][NextScore]_vars

\* One user's logins and the summary rounds that read the stored shift.
InitSummaryShift ==
    /\ today = 1
    /\ db = DatabaseTables(<<EarlierRow>>)
    /\ st = SessionTrackerInit
    /\ cam = CameraMonitorInit("tracker")
    /\ pc = PCActivityMonitorInit("tracker")
    /\ cam_obs = CamObsInit
    /\ pc_obs = PcObsInit
    /\ st_obs = StObsInit
    /\ writes = WritesInit
    /\ shift = ShiftTrackerInit
    /\ shift_obs = ShiftObsInit
    /\ calc = CalcInit
    /\ agg \in { [AggInit EXCEPT !.stored = stored, !.login = login] :
                   stored \in StoredShifts, login \in Times }
    /\ loops = LoopsInit("camera")

NextSummaryShift ==
    \/ \E user_id \in SessionUsers, opened \in BOOLEAN : StartSession(user_id, opened)
    \/ SummaryRoundWithShift
    \/ DayChange
    \/ \E delta \in SessionDetects, idle_time \in SessionIdleTimes,
          fg \in SessionForegrounds :
          ActivitySample(delta, idle_time, fg, MaxSessionSamples)

SpecSummaryShift == InitSummaryShift /\ [][NextSummaryShift]_vars

\* A CameraMonitor built and driven by its owner, with an observer registered.
InitCamera ==
    /\ today = 1
    /\ db = DatabaseTables(<<>>)
    /\ st = SessionTrackerInit
    /\ cam = CameraMonitorInit("observer")
    /\ pc = PCActivityMonitorInit("observer")
    /\ cam_obs = CamObsInit
    /\ pc_obs = PcObsInit
    /\ st_obs = StObsInit
    /\ writes = WritesInit
    /\ shift = ShiftTrackerInit
    /\ shift_obs = ShiftObsInit
    /\ calc = CalcInit
    /\ agg = AggInit
    /\ loops = LoopsInit("camera")

NextCamera ==
    \/ \E opened \in BOOLEAN : CameraStart(opened)
    \/ CameraStop
    \/ CameraLoopExit
    \/ CameraReadFail(MaxStreak)
    \/ \E raw_state \in FocusState, gap \in Gaps, detect \in Detects :
          CameraSample(raw_state, gap, detect, MaxSamples)

SpecCamera == InitCamera /\ [][NextCamera]_vars

\* The same monitor with a frame source that may fail any number of times.
NextCameraFailures ==
    \/ \E opened \in BOOLEAN : CameraStart(opened)
    \/ CameraStop
    \/ CameraLoopExit
    \/ CameraReadFail(MaxFailedReads + 1)
    \/ \E raw_state \in FocusState, detect \in Detects :
          CameraSample(raw_state, 0, detect, MaxFailureSamples)

SpecCameraFailures == InitCamera /\ [][NextCameraFailures]_vars

\* A PCActivityMonitor built and driven by its owner, with an observer registered.
NextActivity ==
    \/ ActivityStart
    \/ ActivityStop
    \/ ActivityLoopExit
    \/ \E delta \in ActivityDeltas, idle_time \in IdleTimes, fg \in Foregrounds :
          ActivitySample(delta, idle_time, fg, MaxActivitySamples)

SpecActivity == InitCamera /\ [][NextActivity]_vars

\* A CameraMonitor and a PCActivityMonitor, each built and driven by its owner.
NextMonitors ==
    \/ \E opened \in BOOLEAN : CameraStart(opened)
    \/ CameraStop
    \/ CameraLoopExit
    \/ CameraReadFail(MaxStreak)
    \/ \E raw_state \in FocusState, detect \in {1, stabilization_seconds} :
          CameraSample(raw_state, 0, detect, MaxSessionSamples + 1)
    \/ ActivityStart
    \/ ActivityStop
    \/ ActivityLoopExit
    \/ \E idle_time \in SessionIdleTimes, fg \in Foregrounds :
          ActivitySample(1, idle_time, fg, MaxSessionSamples + 1)

SpecMonitors == InitCamera /\ [][NextMonitors]_vars

\* One monitor of any of the three kinds, owned by an observer, followed
\* statement by statement.
InitLoops ==
    /\ today = 1
    /\ db = DatabaseTables(<<>>)
    /\ st = SessionTrackerInit
    /\ cam = CameraMonitorInit("observer")
    /\ pc = PCActivityMonitorInit("observer")
    /\ cam_obs = CamObsInit
    /\ pc_obs = PcObsInit
    /\ st_obs = StObsInit
    /\ writes = WritesInit
    /\ shift = ShiftTrackerInit
    /\ shift_obs = ShiftObsInit
    /\ calc = CalcInit
    /\ agg = AggInit
    /\ loops \in {LoopsInit(kind) : kind \in {"camera", "activity", "shift"}}

\* The steps of the caller inside stop() after the flag is down.
LoopsStopStep ==
    \/ LoopsJoinReturns
    \/ LoopsJoinTimesOut
    \/ LoopsRelease
    \/ LoopsClear
    \/ LoopsForget

\* The steps of loop thread i.
LoopThreadStep(i) ==
    \/ LoopTest(i)
    \/ LoopRead(i)
    \/ \E raw_state \in SessionRawStates : CameraLoopBody(i, raw_state)
    \/ \E idle_time \in SessionIdleTimes, fg \in SessionForegrounds :
          ActivityLoopBody(i, idle_time, fg)
    \/ ShiftLoopBody(i)

NextLoops ==
    \/ \E opened \in BOOLEAN,
          window \in {Nothing, Some([start_time |-> 0, end_time |-> MaxShiftTime])} :
          LoopsStart(opened, window)
    \/ LoopsStopFlag
    \/ LoopsStopStep
    \/ \E i \in 1..MaxLoopThreads : LoopThreadStep(i)
    \/ LoopsTick

SpecLoops == InitLoops /\ [][NextLoops]_vars

\* Every thread that can take a step eventually takes one: the interpreter
\* switches threads at bounded intervals and every sleep and join is bounded.
SpecLoopsFair ==
    /\ SpecLoops
    /\ WF_vars(LoopsStopStep)
    /\ \A i \in 1..MaxLoopThreads : WF_vars(LoopThreadStep(i))

\* A session of the tracker with its camera monitor followed statement by
\* statement through stop_session().
NextStopRace ==
    \/ \E observer \in UiObservers : RegisterUiCallbacks(observer)
    \/ \E user_id \in SessionUsers, opened \in BOOLEAN :
          RaceStartSession(user_id, opened)
    \/ RaceStopSessionBegin
    \/ LoopsJoinReturns
    \/ LoopsJoinTimesOut
    \/ LoopsRelease
    \/ LoopsClear
    \/ RaceStopSessionEnd
    \/ \E i \in 1..MaxLoopThreads : LoopTest(i)
    \/ \E i \in 1..MaxLoopThreads : LoopRead(i)
    \/ \E i \in 1..MaxLoopThreads, raw_state \in SessionRawStates :
          CameraLoopBody(i, raw_state)
    \/ LoopsTick

SpecStopRace == Init /\ [][NextStopRace]_vars

\* ------------------------------------------------------------------ claims
CountSummaries(user_id, day) == Cardinality(SelectSummary(db, user_id, day))

ScoreEq(a, b) == a[1] * b[2] = b[1] * a[2]

\* Every late penalty calculate_score can apply is that of one of these values.
LatePenalties == 0..40

\* C1: when stop_session() returns, the daily_summaries row for (user, today)
\* holds the minute counters, the score and the category computed from the
\* classifiers' accumulators as they stood when stop_session() was called.
C1_FinalFlushReflectsCounters ==
    (st_obs.last_op = "stop" /\ st_obs.stop_user # None) =>
        \E i \in SelectSummary(db, st_obs.stop_user, st_obs.stop_day) :
            LET row == db.daily_summaries[i]
                c == st_obs.at_stop
            IN  /\ row.focused_minutes = Minutes(c.focused_seconds)
                /\ row.non_work_minutes = Minutes(c.non_work_seconds)
                /\ row.idle_minutes = Minutes(c.idle_seconds)
                /\ \E late \in LatePenalties :
                     LET score == calculate_score(c.focused_seconds,
                                     c.non_work_seconds, c.idle_seconds, late)
                     IN  /\ ScoreEq(row.productivity_percentage, score)
                         /\ row.category = categorize(score)

\* C2: after any sequence of start_session calls for the same user on the same
\* date, with or without stop_session in between, daily_summaries holds exactly
\* one row for that (user, date); no (user, date) ever has two rows.
C2_OneRowPerUserAndDate ==
    \A user_id \in UserIds, day \in 1..(MaxDays + 1) :
        /\ CountSummaries(user_id, day) <= 1
        /\ st_obs.calls[user_id, day] >= 1 => CountSummaries(user_id, day) = 1

C2_Witness ==
    \E user_id \in UserIds, day \in 1..(MaxDays + 1) :
        /\ st_obs.calls[user_id, day] >= 2
        /\ st_obs.last_op = "start"
        /\ CountSummaries(user_id, day) = 1

StableChanged ==
    cam_obs.kind = "sample" /\ cam._current_state # cam_obs.before._current_state

\* C3: the stable state changes to a state S only at a sample where the real
\* elapsed time summed over the unbroken run of samples whose raw state was S
\* is at least stabilization_seconds.
C3_ChangeOnlyAfterStabilization ==
    StableChanged =>
        /\ cam_obs.run_state = cam._current_state
        /\ cam_obs.run_elapsed >= 2 * TicksPerSecond

\* C4: for every successfully read frame, on_state_update is invoked exactly
\* once, with the new stable state, if the stable state after the sample differs
\* from the stable state before it, and is not invoked otherwise; the number of
\* callbacks equals the number of stable-state changes.
C4_CallbackExactlyOnChange ==
    /\ cam_obs.kind = "sample" =>
         cam_obs.updates = IF StableChanged THEN <<cam._current_state>> ELSE <<>>
    /\ cam_obs.callbacks = cam_obs.changes

\* C5: from stable AWAY with stabilization_seconds = 2.0, when every sample is
\* FOCUSED and takes 0.5 s, the transition to FOCUSED fires exactly once, at the
\* 4th sample, and nothing is reported before that sample.
C5_TransitionAtFourthSample ==
    cam_obs.uniform =>
        /\ cam_obs.n < 4 => (cam_obs.changes = 0 /\ cam_obs.callbacks = 0)
        /\ cam_obs.n >= 4 => /\ cam_obs.changes = 1
                             /\ cam_obs.first_change_at = 4
                             /\ cam_obs.callbacks = 1

\* C6: when a sample's raw state differs from both the stable state and the
\* pending candidate, then after the sample the pending candidate is the raw
\* state and the pending duration is exactly 0.
C6_NewCandidateStartsAtZero ==
    ( /\ cam_obs.kind = "sample"
      /\ cam_obs.raw # cam_obs.before._current_state
      /\ cam_obs.raw # cam_obs.before._pending_state ) =>
        /\ cam._pending_state = cam_obs.raw
        /\ cam._pending_duration = 0

C8_StopsAtThirtiethFailure ==
    /\ (cam._thread = "alive" /\ LoopCondition(cam)) => cam.failed_reads < 30
    /\ (cam._thread = "exited" /\ LoopCondition(cam)) => cam.failed_reads = 30
    /\ cam_obs.kind = "sample" => cam.failed_reads = 0

ActivitySampled == pc_obs.kind = "sample"

\* C9: in every activity sample taken while the input-idle duration is at least
\* idle_threshold, the emitted label is IDLE with the application absent, the
\* foreground application is not queried, idle_seconds grows by exactly the
\* sample's elapsed time and work_seconds and non_work_seconds are unchanged.
C9_IdleSample ==
    (ActivitySampled /\ pc_obs.idle_time >= 60 * TicksPerSecond) =>
        /\ pc_obs.emitted = <<[app_name |-> None, label |-> IDLE]>>
        /\ ~pc_obs.queried
        /\ pc.idle_seconds = pc_obs.before.idle_seconds + pc_obs.delta
        /\ pc.work_seconds = pc_obs.before.work_seconds
        /\ pc.non_work_seconds = pc_obs.before.non_work_seconds

C9_Witness ==
    /\ ActivitySampled
    /\ pc_obs.idle_time > 60 * TicksPerSecond
    /\ pc_obs.delta > 0
    /\ pc_obs.before.idle_seconds > 0
    /\ pc.idle_seconds = pc_obs.before.idle_seconds + pc_obs.delta

\* The foreground application of the last sample: absent when there is no
\* window or no process, else the executable name without regard to case.
Absent == pc_obs.fg \in {"no_window", "no_process"}
Identity == lower(pc_obs.fg)
EmittedLabel == pc_obs.emitted[1].label

\* C10 as stated: below idle_threshold the label is WORK for a member of the
\* allow-list, NON_WORK for a non-member or an absent identity, and IDLE only
\* for the empty string.
C10_AbsentIsNonWork ==
    (ActivitySampled /\ pc_obs.idle_time < 60 * TicksPerSecond) =>
        EmittedLabel = IF Absent THEN NON_WORK
                       ELSE IF Identity = "" THEN IDLE
                       ELSE IF Identity \in work_apps THEN WORK
                       ELSE NON_WORK

\* C10 amended: below idle_threshold the label is WORK for a member of the
\* allow-list, IDLE for an absent identity or the empty string, and NON_WORK
\* for every other identity.
C10_AbsentIsIdle ==
    (ActivitySampled /\ pc_obs.idle_time < 60 * TicksPerSecond) =>
        EmittedLabel = IF Absent \/ Identity = "" THEN IDLE
                       ELSE IF Identity \in work_apps THEN WORK
                       ELSE NON_WORK

C10_Witness ==
    /\ ActivitySampled
    /\ pc_obs.idle_time < 60 * TicksPerSecond
    /\ Absent
    /\ pc_obs.queried
    /\ EmittedLabel = IDLE

\* The accumulator a label corresponds to.
Accumulator(label) ==
    IF label = WORK THEN "work_seconds"
    ELSE IF label = NON_WORK THEN "non_work_seconds" ELSE "idle_seconds"

\* C11: every activity sample credits its elapsed time to exactly the
\* accumulator of the label it emits to the observer (WORK to work_seconds,
\* NON_WORK to non_work_seconds, IDLE to idle_seconds) and to no other.
C11_CreditMatchesLabel ==
    ActivitySampled =>
        \A a \in {"work_seconds", "non_work_seconds", "idle_seconds"} :
            pc[a] = pc_obs.before[a]
                      + (IF a = Accumulator(EmittedLabel) THEN pc_obs.delta ELSE 0)

LastRow(table) == table[Len(table)]

\* C12: while a session is active, focus_logs gets one row for every stable
\* transition the camera monitor reports and no other: the number of rows
\* equals the number of reported transitions, the row of a transition carries
\* the new stable state with score_value 100 for FOCUSED, 60 for DISTRACTED and
\* 0 for AWAY, and the transition is then forwarded to the subscribed UI.
C12_FocusEventPerTransition ==
    /\ Len(db.focus_logs) = cam_obs.callbacks
    /\ (cam_obs.kind = "sample" /\ cam_obs.updates # <<>>) =>
         /\ db.focus_logs # <<>>
         /\ LastRow(db.focus_logs).status = cam_obs.updates[1]
         /\ LastRow(db.focus_logs).score_value =
              (CASE cam_obs.updates[1] = FOCUSED -> 100
                 [] cam_obs.updates[1] = DISTRACTED -> 60
                 [] cam_obs.updates[1] = AWAY -> 0)
         /\ cam_obs.ui = (st._ui_focus_callback # None)

\* C13: while a session is active, every activity sample invokes the observer
\* exactly once and appends exactly one row to pc_activity_logs, with
\* start_time equal to end_time, app the empty string when the identity is
\* absent, and type the sample's label.
C13_ActivityEventPerSample ==
    /\ Len(db.pc_activity_logs) = pc_obs.n
    /\ ActivitySampled =>
         /\ Len(pc_obs.emitted) = 1
         /\ db.pc_activity_logs # <<>>
         /\ LET row == LastRow(db.pc_activity_logs)
                e == pc_obs.emitted[1]
            IN  /\ row.start_time = row.end_time
                /\ row.app = (IF e.app_name = None THEN "" ELSE e.app_name)
                /\ row.type = (CASE e.label = WORK -> "work"
                                 [] e.label = NON_WORK -> "non_work"
                                 [] e.label = IDLE -> "idle")

\* The daily_summaries row of (user, today) holds what _update_daily_summary
\* computes from the monitors' live counters.
SummaryHoldsCounters ==
    \E i \in SelectSummary(db, st.user_id, today) :
        LET row == db.daily_summaries[i]
            c == get_counters(st, cam, pc)
            score == calculate_score(c.focused_seconds, c.non_work_seconds,
                                     c.idle_seconds, row.late_minutes)
        IN  /\ row.focused_minutes = Minutes(c.focused_seconds)
            /\ row.non_work_minutes = Minutes(c.non_work_seconds)
            /\ row.idle_minutes = Minutes(c.idle_seconds)
            /\ ScoreEq(row.productivity_percentage, score)
            /\ row.category = categorize(score)

Active ==
    st._summary_running \/ st._camera_monitor # None \/ st._pc_monitor # None

StopCalled == st_obs.stop_day > 0

\* C15 as stated: STOPPED is terminal; once stop_session() has been called on
\* an instance, no later call makes it active again.
C15_StoppedIsTerminal == StopCalled => ~Active

\* C15 amended: STOPPED is not terminal; a start_session call that returns on
\* an instance on which stop_session() has been called makes it active again,
\* with new monitors and a new aggregation task started.
C15_StartAfterStopIsActive ==
    (StopCalled /\ st_obs.last_op = "start") =>
        /\ st._camera_monitor # None
        /\ st._pc_monitor # None
        /\ st._summary_running
        /\ st.summary_threads >= 1
        /\ pc._running /\ pc._thread = "alive"

C15_Witness ==
    /\ StopCalled
    /\ st_obs.stop_user # None
    /\ st_obs.starts >= 2
    /\ st_obs.last_op = "start"
    /\ Active
    /\ pc._running

\* C16: start_session(user_id) and stop_session() return normally for every
\* user id of the users table and under every collaborator failure: no
\* exception reaches the caller, and no session is left half-started (summary
\* row ensured and user_id set, but no monitor or aggregation task running).
C16_LifecycleCallsReturn ==
    /\ st_obs.last_op # "start_raised"
    /\ st_obs.last_op \in {"start", "start_raised"} =>
         /\ st._camera_monitor # None
         /\ st._pc_monitor # None
         /\ st._summary_running

Writing(t) == CurrentStatement(t) \in StoreStatements

C19_PersistenceErrorNotFatal ==
    /\ (cam_obs.kind = "sample" /\ cam_obs.handler = "raised") =>
         /\ LoopCondition(cam) => cam._thread = "alive"
         /\ cam.focused_seconds + cam.distracted_seconds + cam.away_seconds
              = cam_obs.before.focused_seconds + cam_obs.before.distracted_seconds
                  + cam_obs.before.away_seconds + cam_obs.delta
    /\ (ActivitySampled /\ pc_obs.handler = "raised") =>
         /\ pc._running => pc._thread = "alive"
         /\ pc.work_seconds + pc.non_work_seconds + pc.idle_seconds
              = pc_obs.before.work_seconds + pc_obs.before.non_work_seconds
                  + pc_obs.before.idle_seconds + pc_obs.delta
    /\ (st_obs.last_op = "round" /\ st_obs.round_raised) =>
         /\ st._summary_running
         /\ st.summary_threads >= 1

\* A second activity sample of a session whose first one failed to append.
C19_Witness ==
    /\ ActivitySampled
    /\ pc_obs.handler = "raised"
    /\ pc_obs.delta > 0
    /\ pc_obs.before.non_work_seconds + pc_obs.before.idle_seconds > 0
    /\ pc._thread = "alive"
    /\ st_obs.round_raised

ShiftTicked == shift_obs.kind = "tick" /\ shift_obs.emitted # <<>>
Snapshot == shift_obs.emitted[1]

\* C20 as stated: the status is NO_SHIFT iff no window is configured; otherwise
\* BEFORE_SHIFT iff now < start, IN_SHIFT iff start <= now <= end, and
\* AFTER_SHIFT iff now > end.
C20_StatusByWindow ==
    ShiftTicked =>
        LET w == shift._current_shift
            now == shift_obs.now
        IN  /\ Snapshot.status = NO_SHIFT <=> w = Nothing
            /\ w # Nothing =>
                 /\ Snapshot.status = BEFORE_SHIFT <=> now < w[1].start_time
                 /\ Snapshot.status = IN_SHIFT <=>
                      (w[1].start_time <= now /\ now <= w[1].end_time)
                 /\ Snapshot.status = AFTER_SHIFT <=> now > w[1].end_time

\* C20 amended: the status is NO_SHIFT iff no window is configured; otherwise
\* BEFORE_SHIFT iff now < start, IN_SHIFT iff start <= now <= end, and
\* AFTER_SHIFT iff now >= start and now > end.
C20_StatusInOrder ==
    ShiftTicked =>
        LET w == shift._current_shift
            now == shift_obs.now
        IN  /\ Snapshot.status = NO_SHIFT <=> w = Nothing
            /\ w # Nothing =>
                 /\ Snapshot.status = BEFORE_SHIFT <=> now < w[1].start_time
                 /\ Snapshot.status = IN_SHIFT <=>
                      (w[1].start_time <= now /\ now <= w[1].end_time)
                 /\ Snapshot.status = AFTER_SHIFT <=>
                      (now >= w[1].start_time /\ now > w[1].end_time)

\* A tick between the end and the start of a window that ends before it starts.
C20_Witness ==
    /\ ShiftTicked
    /\ shift._current_shift # Nothing
    /\ shift._current_shift[1].end_time < shift_obs.now
    /\ shift_obs.now < shift._current_shift[1].start_time
    /\ Snapshot.status = BEFORE_SHIFT

\* minutes is the number of whole minutes in a duration of ticks shift ticks.
IsWholeMinutes(minutes, ticks) ==
    /\ minutes * ShiftTicksPerMinute <= ticks
    /\ ticks < (minutes + 1) * ShiftTicksPerMinute

\* C21: in every shift snapshot the minute fields follow the status: NO_SHIFT
\* has worked, remaining and late all 0; BEFORE_SHIFT has worked 0 and
\* remaining the whole minutes from now to start; IN_SHIFT has worked the whole
\* minutes since start and remaining the whole minutes to end; AFTER_SHIFT has
\* worked the whole minutes from start to end and remaining 0.
C21_MinutesByStatus ==
    ShiftTicked =>
        LET w == shift._current_shift
            now == shift_obs.now
        IN  /\ Snapshot.status = NO_SHIFT =>
                 /\ Snapshot.worked_minutes = 0
                 /\ Snapshot.remaining_minutes = 0
                 /\ Snapshot.late_minutes = 0
            /\ Snapshot.status = BEFORE_SHIFT =>
                 /\ Snapshot.worked_minutes = 0
                 /\ IsWholeMinutes(Snapshot.remaining_minutes,
                                   w[1].start_time - now)
            /\ Snapshot.status = IN_SHIFT =>
                 /\ IsWholeMinutes(Snapshot.worked_minutes,
                                   now - w[1].start_time)
                 /\ IsWholeMinutes(Snapshot.remaining_minutes,
                                   w[1].end_time - now)
            /\ Snapshot.status = AFTER_SHIFT =>
                 /\ IsWholeMinutes(Snapshot.worked_minutes,
                                   w[1].end_time - w[1].start_time)
                 /\ Snapshot.remaining_minutes = 0

\* A tick inside a window, a minute and a half after its start and a minute
\* before its end.
C21_Witness ==
    /\ ShiftTicked
    /\ Snapshot.status = IN_SHIFT
    /\ shift_obs.now - shift._current_shift[1].start_time
         = ShiftTicksPerMinute + 1
    /\ shift._current_shift[1].end_time - shift_obs.now
         = ShiftTicksPerMinute
    /\ Snapshot.worked_minutes = 1
    /\ Snapshot.remaining_minutes = 1

\* C22: every snapshot the shift tracker emits has worked_minutes >= 0,
\* remaining_minutes >= 0 and late_minutes >= 0, whatever now, the check-in
\* time and the configured window are.
C22_MinutesNonNegative ==
    ShiftTicked =>
        /\ Snapshot.worked_minutes >= 0
        /\ Snapshot.remaining_minutes >= 0
        /\ Snapshot.late_minutes >= 0

\* C23: every snapshot emitted during one session of the shift tracker with a
\* configured window carries late_minutes = max(0, whole minutes from the shift
\* start to the check-in time recorded at start()), whatever now and the
\* status are.
C23_LateFixedAtCheckIn ==
    (ShiftTicked /\ shift._current_shift # Nothing) =>
        LET start == shift._current_shift[1].start_time
        IN  IF shift_obs.check_in > start
            THEN IsWholeMinutes(Snapshot.late_minutes,
                                shift_obs.check_in - start)
            ELSE Snapshot.late_minutes = 0

\* A snapshot after the end of a window whose start lies two whole minutes
\* before the check-in.
C23_Witness ==
    /\ ShiftTicked
    /\ shift._current_shift # Nothing
    /\ Snapshot.status = AFTER_SHIFT
    /\ shift_obs.check_in - shift._current_shift[1].start_time
         = 2 * ShiftTicksPerMinute
    /\ shift_obs.now > shift_obs.check_in
    /\ Snapshot.late_minutes = 2

\* The pending call of the ProductivityCalculator has been made.
Applied == calc.category # None

\* The score lies in [0, 100].
InRange(score) ==
    /\ score[2] > 0
    /\ 0 <= score[1]
    /\ score[1] <= 100 * score[2]

\* C24: calculate_score returns a value in [0, 100] for all non-negative
\* focused, non_work and idle seconds and every integer late_minutes, and every
\* productivity_percentage in daily_summaries lies in [0, 100].
C24_ScoreInRange ==
    /\ (/\ Applied
        /\ calc.op = "calculate_score"
        /\ calc.args[1] >= 0 /\ calc.args[2] >= 0 /\ calc.args[3] >= 0)
         => InRange(calc.score)
    /\ \A i \in DOMAIN db.daily_summaries :
         InRange(db.daily_summaries[i].productivity_percentage)

\* No focused time, the largest late_minutes, and a summary row that a session's
\* ensure step inserted and a round of the summary thread has passed over.
C24_Witness ==
    /\ Applied
    /\ calc.op = "calculate_score"
    /\ calc.args = <<0, MaxScoreSeconds, MaxScoreSeconds, 1000>>
    /\ calc.score[1] = 0
    /\ Len(db.daily_summaries) > 1
    /\ st_obs.last_op = "round"

\* C25: for every T > 0, calculate_score(T, 0, 0, 0) is exactly 100 and
\* categorize of it is PERFECT.
C25_AllFocusedIsPerfect ==
    (/\ Applied
     /\ calc.op = "calculate_score"
     /\ calc.args[1] > 0
     /\ calc.args[2] = 0 /\ calc.args[3] = 0 /\ calc.args[4] = 0)
      => /\ calc.score[2] > 0
         /\ calc.score[1] = 100 * calc.score[2]
         /\ calc.category = "PERFECT"

C25_Witness ==
    /\ Applied
    /\ calc.op = "calculate_score"
    /\ calc.args = <<MaxScoreSeconds, 0, 0, 0>>
    /\ calc.category = "PERFECT"

\* C26: whenever focused + non_work + idle <= 0, calculate_score returns 0
\* whatever late_minutes is, dividing nothing; calculate_score(0, 0, 0, 0) = 0.
C26_NoTimeScoresZero ==
    (/\ Applied
     /\ calc.op = "calculate_score"
     /\ calc.args[1] + calc.args[2] + calc.args[3] <= 0)
      => /\ calc.score[2] > 0
         /\ calc.score[1] = 0

C26_Witness ==
    /\ Applied
    /\ calc.op = "calculate_score"
    /\ calc.args = <<0, 0, 0, 0>>
    /\ calc.score = <<0, 1>>

\* C27: categorize is a total function of the score with lower-inclusive
\* bands: PERFECT iff score >= 90, VERY_GOOD iff 80 <= score < 90, GOOD iff
\* 70 <= score < 80, BAD iff 60 <= score < 70, WORSE iff score < 60.
C27_BandsLowerInclusive ==
    Applied =>
        LET n == calc.score[1]
            d == calc.score[2]
        IN  /\ calc.category \in {"PERFECT", "VERY_GOOD", "GOOD", "BAD", "WORSE"}
            /\ calc.category = "PERFECT" <=> n >= 90 * d
            /\ calc.category = "VERY_GOOD" <=> (80 * d <= n /\ n < 90 * d)
            /\ calc.category = "GOOD" <=> (70 * d <= n /\ n < 80 * d)
            /\ calc.category = "BAD" <=> (60 * d <= n /\ n < 70 * d)
            /\ calc.category = "WORSE" <=> n < 60 * d

\* categorize(60.0) is BAD.
C27_Witness ==
    /\ Applied
    /\ calc.op = "categorize"
    /\ calc.score = <<600, 10>>
    /\ calc.category = "BAD"

\* A session is on whose frame source could not be opened at start.
CameraUnavailable ==
    /\ st._camera_monitor # None
    /\ cam._cap = None
    /\ cam._thread = "none"

\* C28: when the frame source cannot be opened at start, the focus classifier
\* starts no sampling thread and start_session returns, the activity classifier
\* and the aggregation task are started, the focus accumulators stay 0 for the
\* whole session, and each aggregation round still writes the score computed
\* from the remaining signals.
C28_SessionWithoutCamera ==
    /\ [](CameraUnavailable =>
            /\ ~cam._running
            /\ st_obs.last_op # "start_raised"
            /\ st._pc_monitor # None
            /\ pc._thread = "alive"
            /\ st._summary_running
            /\ st.summary_threads >= 1
            /\ cam.focused_seconds = 0
            /\ cam.distracted_seconds = 0
            /\ cam.away_seconds = 0
            /\ get_counters(st, cam, pc).focused_seconds = 0)
    /\ [][ (CameraUnavailable /\ st_obs.last_op # "round"
              /\ st_obs'.last_op = "round")
             => SummaryHoldsCounters' ]_vars

\* C29: when the ensure step of start_session finds a daily_summaries row of
\* (user, today), it leaves every field of that row unchanged and inserts
\* nothing: the table is the same after the call.
C29_EnsureKeepsExistingRow ==
    [][ (/\ st_obs'.starts = st_obs.starts + 1
         /\ SelectSummary(db, st'.user_id, today) # {})
          => db'.daily_summaries = db.daily_summaries ]_vars

\* A login of the user whose row of today an earlier run has filled.
C29_Witness ==
    /\ st_obs.last_op = "start"
    /\ st.user_id = "0001"
    /\ today = 1
    /\ st_obs.calls["0001", 1] >= 1
    /\ db.daily_summaries = <<EarlierRow>>

\* C30: when the stored shift start can be parsed neither as a full timestamp
\* nor as a time of day composed with today's date, the aggregation uses
\* late_minutes = 0 and still writes the summary of that round; full-timestamp
\* parsing is attempted first and the time-of-day fallback only after it fails.
C30_UnparsedStartCountsAsOnTime ==
    [][ (agg'.kind = "round" /\ UNCHANGED <<today, st, cam, pc>>) =>
          /\ (agg.stored # Nothing /\ agg.stored[1].shift_start = <<"other">>) =>
               /\ ~agg'.raised
               /\ agg'.late_minutes = 0
               /\ \A i \in SelectSummary(db', st.user_id, today) :
                    LET row == db'.daily_summaries[i]
                        c == get_counters(st, cam, pc)
                        score == calculate_score(c.focused_seconds,
                                     c.non_work_seconds, c.idle_seconds, 0)
                    IN  /\ row.late_minutes = 0
                        /\ ScoreEq(row.productivity_percentage, score)
                        /\ row.category = category_value(categorize(score))
          /\ agg'.attempts # <<>> => agg'.attempts[1] = "fromisoformat"
          /\ Len(agg'.attempts) > 1 =>
               /\ agg'.attempts[2] = "with_today"
               /\ agg.stored[1].shift_start[1] # "timestamp" ]_vars

\* C40: whenever the focused counter is 0 and non_work + idle > 0,
\* calculate_score returns exactly 0 and the category is WORSE, for every split
\* between non_work and idle seconds and every late_minutes.
C40_NoFocusScoresZero ==
    (/\ Applied
     /\ calc.op = "calculate_score"
     /\ calc.args[1] = 0
     /\ calc.args[2] >= 0 /\ calc.args[3] >= 0
     /\ calc.args[2] + calc.args[3] > 0)
      => /\ calc.score[2] > 0
         /\ calc.score[1] = 0
         /\ calc.category = "WORSE"

\* Idle time only and a login on time: the smallest penalty there is.
C40_Witness ==
    /\ Applied
    /\ calc.op = "calculate_score"
    /\ calc.args = <<0, 0, 1, 0>>
    /\ calc.score[1] = 0
    /\ calc.category = "WORSE"

\* C33: the six accumulators (focused, distracted and away seconds of the
\* focus classifier; work, non_work and idle seconds of the activity
\* classifier) never decrease, over any sequence of samples with non-negative
\* elapsed times, failed reads, state transitions and stop() calls.
C33_AccumulatorsNeverDecrease ==
    [][ /\ cam'.focused_seconds >= cam.focused_seconds
        /\ cam'.distracted_seconds >= cam.distracted_seconds
        /\ cam'.away_seconds >= cam.away_seconds
        /\ pc'.work_seconds >= pc.work_seconds
        /\ pc'.non_work_seconds >= pc.non_work_seconds
        /\ pc'.idle_seconds >= pc.idle_seconds ]_vars

\* Both monitors stopped after each has credited time to an accumulator.
C33_Witness ==
    /\ ~cam._running
    /\ cam._thread = "exited"
    /\ cam.focused_seconds + cam.distracted_seconds + cam.away_seconds > 0
    /\ ~pc._running
    /\ pc.work_seconds + pc.non_work_seconds + pc.idle_seconds > 0

\* C35: at most one periodic aggregation thread and at most one set of running
\* monitors feed an orchestrator instance at any time: no second aggregation
\* loop keeps running, and start_session never leaves the running monitors of
\* an earlier session behind.
C35_OneFeedPerOrchestrator ==
    /\ [](st.summary_threads <= 1)
    /\ [][ (st_obs'.starts = st_obs.starts + 1 /\ st_obs'.last_op = "start")
             => /\ ~(cam._thread = "alive" /\ cam._running)
                /\ ~(pc._thread = "alive" /\ pc._running) ]_vars

\* C36: every summary write of an active session (each periodic round and the
\* final flush) finds exactly one daily_summaries row to modify, the row of
\* (user, current date), also when the date has changed while the session is
\* active, and leaves every other row as it was.
C36_WriteHitsTodaysRow ==
    [][ (st_obs'.last_op \in {"round", "stop"}
           /\ st_obs'.last_op # st_obs.last_op
           /\ st.user_id # None)
          => /\ Cardinality(SelectSummary(db, st.user_id, today)) = 1
             /\ Len(db'.daily_summaries) = Len(db.daily_summaries)
             /\ \A i \in DOMAIN db.daily_summaries :
                  i \notin SelectSummary(db, st.user_id, today)
                    => db'.daily_summaries[i] = db.daily_summaries[i] ]_vars

\* C38: whenever the focus loop is between samples, the orchestrator's
\* get_focus_state() equals the stable state of its focus classifier (both are
\* AWAY initially).
C38_FocusStateMirrorsClassifier ==
    /\ st._camera_monitor = None /\ st_obs.starts = 0
         => st._current_focus_state = AWAY /\ cam._current_state = AWAY
    /\ st._camera_monitor # None
         => st._current_focus_state = cam._current_state

Credited ==
    IF loops.kind = "camera"
    THEN cam.focused_seconds + cam.distracted_seconds + cam.away_seconds
    ELSE pc.work_seconds + pc.non_work_seconds + pc.idle_seconds

Exited(i) == i <= Len(loops.threads) /\ ~is_alive(loops, i)

\* C31: once stop() has been called on a focus classifier, an activity
\* classifier or a shift tracker, every loop thread that was alive at the call
\* eventually exits (under fair scheduling), and stop() itself returns to its
\* caller whether or not the loop has exited.
C31_StoppedLoopsExit ==
    /\ \A i \in 1..MaxLoopThreads : (i \in loops.stopped) ~> Exited(i)
    /\ (loops.caller # "idle") ~> (loops.caller = "idle")

\* C32: on one classifier instance, whatever start() and stop() calls were
\* made, at most one sampling-loop thread is alive and the accumulators hold no
\* more time than has passed.
C32_OneLoopNoDoubleCredit ==
    loops.kind # "shift" =>
        /\ Cardinality(LiveThreads(loops)) <= 1
        /\ Credited <= loops.clock

\* C39: the camera thread never calls read on a capture that stop() has
\* released or replaced by None.
C39_NoReadOnReleasedCapture == loops.bad_read = "none"

\* C37: once stop_session() has returned, no iteration of a monitor thread of
\* that session appends a focus or activity row or invokes a UI observer, even
\* an iteration that was under way when the join timed out.
C37_NothingAfterStopSession ==
    ~(loops.last.after_stop /\ (loops.last.ui \/ loops.last.appended))

====
